---- MODULE Spec2Model ----
(***************************************************************************)
(* Dialogue engine of the AI Pizza Palace backend: intent classification,  *)
(* entity extraction, per-user session state and the /chat endpoint that   *)
(* turns a confirm outcome into a persisted order.                         *)
(*                                                                         *)
(* Text is modelled as TLA+ strings, handled character by character the    *)
(* way the Python code handles str values.  Prices are integers (cents).   *)
(***************************************************************************)
EXTENDS Integers, Sequences, FiniteSets, TLC

(***************************************************************************)
(* Python str primitives                                                   *)
(***************************************************************************)

\* s[i-1] of Python, as a one-character string
Char(s, i) == SubSeq(s, i, i)

UpperChars == "ABCDEFGHIJKLMNOPQRSTUVWXYZ"

LowerChars == "abcdefghijklmnopqrstuvwxyz"

DigitChars == "0123456789"

\* characters str.strip(), str.split() and the regex class \s treat as space
WhitespaceChars == {" ", "\t", "\n", "\r"}

\* 1-based position of character c in alphabet, 0 when absent
IndexIn(c, alphabet) ==
    IF \E i \in 1..Len(alphabet) : Char(alphabet, i) = c
    THEN CHOOSE i \in 1..Len(alphabet) : Char(alphabet, i) = c
    ELSE 0

IsDigit(c) == IndexIn(c, DigitChars) > 0

\* the regex class \w (and so the two sides of \b)
IsWordChar(c) ==
    \/ IndexIn(c, LowerChars) > 0
    \/ IndexIn(c, UpperChars) > 0
    \/ IsDigit(c)
    \/ c = "_"

LowerChar(c) ==
    IF IndexIn(c, UpperChars) > 0 THEN Char(LowerChars, IndexIn(c, UpperChars)) ELSE c

RECURSIVE StrLower(_)
\* str.lower()
StrLower(s) ==
    IF Len(s) = 0 THEN ""
    ELSE IF Len(s) = 1 THEN LowerChar(s)
    ELSE LET h == Len(s) \div 2
         IN  StrLower(SubSeq(s, 1, h)) \o StrLower(SubSeq(s, h + 1, Len(s)))

\* the character classes of the runs below: "space" (whitespace), "word"
\* (non-whitespace), "digit", "nondigit" and "zero"
InClass(c, cls) ==
    CASE cls = "space" -> c \in WhitespaceChars
      [] cls = "word"  -> c \notin WhitespaceChars
      [] cls = "digit" -> IsDigit(c)
      [] cls = "nondigit" -> ~IsDigit(c)
      [] cls = "zero" -> c = "0"

\* length of the longest prefix of s made of characters of the class
RunLen(s, cls) ==
    (CHOOSE i \in 1..(Len(s) + 1) :
        /\ i = Len(s) + 1 \/ ~InClass(Char(s, i), cls)
        /\ \A j \in 1..(i - 1) : InClass(Char(s, j), cls)) - 1

LStrip(s) == SubSeq(s, RunLen(s, "space") + 1, Len(s))

RECURSIVE RStrip(_)
RStrip(s) ==
    IF Len(s) > 0 /\ Char(s, Len(s)) \in WhitespaceChars
    THEN RStrip(SubSeq(s, 1, Len(s) - 1))
    ELSE s

\* str.strip()
StrStrip(s) == RStrip(LStrip(s))

\* the Python test `sub in s`
Contains(sub, s) ==
    \E i \in 0..(Len(s) - Len(sub)) : SubSeq(s, i + 1, i + Len(sub)) = sub

RECURSIVE StrSplit(_)
\* str.split(): the maximal runs of non-whitespace, in order
StrSplit(s) ==
    LET t == LStrip(s)
        n == RunLen(t, "word")
    IN  IF Len(t) = 0 THEN << >>
        ELSE <<SubSeq(t, 1, n)>> \o StrSplit(SubSeq(t, n + 1, Len(t)))

RECURSIVE CollapseSpaces(_)
\* re.sub(r'\s+', ' ', s), one run of s at a time
CollapseSpaces(s) ==
    IF Len(s) = 0 THEN ""
    ELSE IF Char(s, 1) \in WhitespaceChars
         THEN " " \o CollapseSpaces(SubSeq(s, RunLen(s, "space") + 1, Len(s)))
         ELSE SubSeq(s, 1, RunLen(s, "word"))
                 \o CollapseSpaces(SubSeq(s, RunLen(s, "word") + 1, Len(s)))

RECURSIVE ParseInt(_, _)
\* int() of a run of decimal digits (acc is the value read so far)
ParseInt(s, acc) ==
    IF Len(s) = 0 THEN acc
    ELSE ParseInt(Tail(s), 10 * acc + (IndexIn(Char(s, 1), DigitChars) - 1))

\* re.findall(r'\d+', s)[0], or "" when s holds no digit
FirstDigits(s) ==
    LET rest == SubSeq(s, RunLen(s, "nondigit") + 1, Len(s))
    IN  SubSeq(rest, 1, RunLen(rest, "digit"))

\* the digits of the largest float, about 1.8 * 10^308: float() of an
\* integer of more digits raises OverflowError
FloatDigits == 309

\* the value kept for an integer that float() cannot take
Unconvertible == 0 - 1

\* a run of digits without its leading zeros
Significant(digits) == SubSeq(digits, RunLen(digits, "zero") + 1, Len(digits))

\* the longest run of digits int() converts (sys.get_int_max_str_digits());
\* int() of a longer one raises ValueError
MaxStrDigits == 4300

\* what stands for the ValueError of int()
Unparsable == 0 - 2

\* int(digits) of a run of decimal digits, as far as the callers tell the
\* integers apart: by their value when it is small, and by whether float()
\* can take them; Unparsable when int() raises
IntOf(digits) ==
    IF Len(digits) > MaxStrDigits THEN Unparsable
    ELSE IF Len(Significant(digits)) > FloatDigits THEN Unconvertible
    ELSE ParseInt(digits, 0)

\* str.capitalize() for the lower-case keywords it is applied to
Capitalize(s) ==
    IF Len(s) = 0 THEN ""
    ELSE (IF IndexIn(Char(s, 1), LowerChars) > 0
          THEN Char(UpperChars, IndexIn(Char(s, 1), LowerChars))
          ELSE Char(s, 1)) \o StrLower(Tail(s))

(***************************************************************************)
(* Regular expressions, as far as INTENT_PATTERNS uses them.  A pattern is *)
(* a tree; Ends(re, s, i) is the set of offsets where a match of re that   *)
(* starts at offset i of s can end, so that re.search succeeds exactly     *)
(* when some start offset has an end.                                      *)
(***************************************************************************)

Lit(w) == [k |-> "lit", w |-> w]

Cat(rs) == [k |-> "cat", rs |-> rs]

Alt(rs) == [k |-> "alt", rs |-> rs]

\* w1|w2|...
Words(ws) == Alt([i \in DOMAIN ws |-> Lit(ws[i])])

\* .*
AnyStar == [k |-> "any"]

\* \s*
SpaceStar == [k |-> "ws"]

\* r?
Opt(r) == [k |-> "opt", r |-> r]

\* \b
WB == [k |-> "wb"]

\* (?!r)
NotAhead(r) == [k |-> "nla", r |-> r]

\* \b at offset i: exactly one of s[i-1], s[i] is a word character
Boundary(s, i) ==
    LET before == i >= 1 /\ IsWordChar(Char(s, i))
        after  == i < Len(s) /\ IsWordChar(Char(s, i + 1))
    IN  before # after

RECURSIVE Ends(_, _, _)
Ends(re, s, i) ==
    CASE re.k = "lit" ->
            IF i + Len(re.w) <= Len(s) /\ SubSeq(s, i + 1, i + Len(re.w)) = re.w
            THEN {i + Len(re.w)} ELSE {}
      [] re.k = "cat" ->
            IF Len(re.rs) = 0 THEN {i}
            ELSE UNION {Ends(Cat(Tail(re.rs)), s, j) : j \in Ends(Head(re.rs), s, i)}
      [] re.k = "alt" ->
            UNION {Ends(re.rs[n], s, i) : n \in DOMAIN re.rs}
      [] re.k = "any" ->
            {j \in i..Len(s) : \A m \in (i + 1)..j : Char(s, m) # "\n"}
      [] re.k = "ws" ->
            {j \in i..Len(s) : \A m \in (i + 1)..j : Char(s, m) \in WhitespaceChars}
      [] re.k = "opt" ->
            {i} \cup Ends(re.r, s, i)
      [] re.k = "wb" ->
            IF Boundary(s, i) THEN {i} ELSE {}
      [] re.k = "nla" ->
            IF Ends(re.r, s, i) = {} THEN {i} ELSE {}

\* re.search(pattern, s) is not None
ReSearch(re, s) == \E i \in 0..Len(s) : Ends(re, s, i) # {}

(***************************************************************************)
(* Intent classifier                                                       *)
(***************************************************************************)

\* a.*b
Gap(a, b) == Cat(<<Lit(a), AnyStar, Lit(b)>>)

\* a\s*b
Sp(a, b) == Cat(<<Lit(a), SpaceStar, Lit(b)>>)

\* \b(alt1|alt2|...)\b
Bounded(alts) == Cat(<<WB, Alt(alts), WB>>)

GreetingPatterns ==
    << Bounded(<< Lit("hi"), Lit("hello"), Lit("hey"),
                  Cat(<<Lit("good"), SpaceStar, Words(<<"morning", "afternoon", "evening">>)>>),
                  Lit("greetings") >>) >>

MenuQueryPatterns ==
    << Bounded(<< Lit("menu"), Gap("show", "menu"), Gap("what", "have"),
                  Gap("what", "offer"), Gap("list", "items"), Gap("food", "list"),
                  Lit("available"), Lit("options") >>) >>

CategoryQueryPatterns ==
    << Bounded(<< Lit("pizza"), Lit("drink"), Lit("dessert"), Lit("side"),
                  Lit("appetizer"), Lit("beverage"), Lit("category") >>) >>

ItemDetailsPatterns ==
    << Bounded(<< Gap("tell", "about"), Lit("describe"), Gap("what", "is"),
                  Lit("details"), Lit("ingredients"), Gap("info", "about") >>) >>

TrackOrderPatterns ==
    << Bounded(<< Lit("track"),
                  Cat(<<Lit("where"), AnyStar, Words(<<"is", "my">>)>>),
                  Cat(<<Lit("order"), SpaceStar, Words(<<"status", "#", "number">>)>>),
                  Gap("status", "order"), Sp("how", "long"), Sp("my", "order") >>) >>

ConfirmOrderPatterns ==
    << Bounded(<< Lit("yes"), Lit("confirm"), Lit("proceed"), Gap("place", "order"),
                  Sp("go", "ahead"), Lit("sure"), Lit("okay"), Lit("ok"),
                  Lit("yep"), Lit("yup") >>) >>

CancelOrderPatterns ==
    << Bounded(<< Lit("cancel"), Lit("remove"), Lit("delete"), Sp("never", "mind"),
                  Sp("forget", "it"),
                  Cat(<<Lit("don"), Opt(Lit("'")), Lit("t"), SpaceStar, Lit("want")>>) >>) >>

OrderIntentPatterns ==
    << Bounded(<< Lit("want"),
                  Cat(<<Lit("i"), Opt(Lit("'")), Lit("d"), SpaceStar, Lit("like")>>),
                  Sp("get", "me"), Sp("give", "me"), Lit("buy"), Lit("purchase"),
                  Gap("add", "cart") >>),
       Cat(<< WB, Lit("order"), WB,
              NotAhead(Cat(<<SpaceStar, Words(<<"status", "#", "number">>)>>)) >>) >>

SupportPatterns ==
    << Bounded(<< Lit("help"), Lit("support"), Lit("problem"), Lit("issue"),
                  Lit("complaint"), Gap("speak", "human"), Lit("manager"),
                  Lit("wrong") >>) >>

PersonaQueryPatterns ==
    << Bounded(<< Cat(<<Lit("who"), AnyStar, Lit("are"), AnyStar, Lit("you")>>),
                  Cat(<<Lit("are"), AnyStar, Lit("you"), AnyStar,
                        Words(<<"real", "ai", "bot", "human">>)>>),
                  Cat(<<Lit("what"), AnyStar, Lit("can"), AnyStar, Lit("you"),
                        AnyStar, Lit("do")>>),
                  Gap("your", "name"),
                  Cat(<<Lit("do"), AnyStar, Lit("you"), AnyStar, Lit("eat")>>) >>) >>

KbQueryPatterns ==
    << Bounded(<< Lit("allergy"), Lit("allergen"), Lit("gluten"), Lit("nutrition"),
                  Lit("calorie"), Lit("ingredient"), Lit("policy"), Lit("refund"),
                  Gap("delivery", "time"), Lit("hours"), Lit("open"), Lit("contact"),
                  Lit("phone"), Lit("email"), Lit("promo"), Lit("deal"),
                  Lit("discount"), Lit("coupon"), Lit("loyalty"), Lit("reward"),
                  Lit("custom"), Lit("modify"), Lit("topping"), Lit("history"),
                  Lit("origin"), Lit("fact"), Lit("trivia"), Lit("dough"),
                  Lit("rise"), Lit("yeast"), Lit("science"), Lit("reaction"),
                  Lit("oven"), Lit("temp"), Lit("pineapple"), Gap("deep", "dish"),
                  Gap("thin", "crust") >>) >>

\* a table that declares ORDER_INTENT ahead of TRACK_ORDER
INTENT_PATTERNS_OrderFirst ==
    << [intent |-> "GREETING",       patterns |-> GreetingPatterns],
       [intent |-> "MENU_QUERY",     patterns |-> MenuQueryPatterns],
       [intent |-> "CATEGORY_QUERY", patterns |-> CategoryQueryPatterns],
       [intent |-> "ITEM_DETAILS",   patterns |-> ItemDetailsPatterns],
       [intent |-> "ORDER_INTENT",   patterns |-> OrderIntentPatterns],
       [intent |-> "TRACK_ORDER",    patterns |-> TrackOrderPatterns],
       [intent |-> "CONFIRM_ORDER",  patterns |-> ConfirmOrderPatterns],
       [intent |-> "CANCEL_ORDER",   patterns |-> CancelOrderPatterns],
       [intent |-> "SUPPORT",        patterns |-> SupportPatterns],
       [intent |-> "PERSONA_QUERY",  patterns |-> PersonaQueryPatterns],
       [intent |-> "KB_QUERY",       patterns |-> KbQueryPatterns] >>

\* the dict INTENT_PATTERNS, in its declaration (= iteration) order
INTENT_PATTERNS ==
    << [intent |-> "GREETING",       patterns |-> GreetingPatterns],
       [intent |-> "MENU_QUERY",     patterns |-> MenuQueryPatterns],
       [intent |-> "CATEGORY_QUERY", patterns |-> CategoryQueryPatterns],
       [intent |-> "ITEM_DETAILS",   patterns |-> ItemDetailsPatterns],
       [intent |-> "TRACK_ORDER",    patterns |-> TrackOrderPatterns],
       [intent |-> "CONFIRM_ORDER",  patterns |-> ConfirmOrderPatterns],
       [intent |-> "CANCEL_ORDER",   patterns |-> CancelOrderPatterns],
       [intent |-> "ORDER_INTENT",   patterns |-> OrderIntentPatterns],
       [intent |-> "SUPPORT",        patterns |-> SupportPatterns],
       [intent |-> "PERSONA_QUERY",  patterns |-> PersonaQueryPatterns],
       [intent |-> "KB_QUERY",       patterns |-> KbQueryPatterns] >>

\* some pattern of table row n matches the normalised message
RowMatches(n, message_lower) ==
    \E p \in DOMAIN INTENT_PATTERNS[n].patterns :
        ReSearch(INTENT_PATTERNS[n].patterns[p], message_lower)

\* a classifier that keeps the last row that matches
classify_intent_LastMatch(message) ==
    LET message_lower == StrStrip(StrLower(message))
        hits == {n \in DOMAIN INTENT_PATTERNS : RowMatches(n, message_lower)}
    IN  IF hits = {} THEN "UNKNOWN"
        ELSE INTENT_PATTERNS[CHOOSE n \in hits : \A m \in hits : n >= m].intent

classify_intent(message) ==
    LET message_lower == StrStrip(StrLower(message))
        hits == {n \in DOMAIN INTENT_PATTERNS : RowMatches(n, message_lower)}
    IN  IF hits = {} THEN "UNKNOWN"
        ELSE INTENT_PATTERNS[CHOOSE n \in hits : \A m \in hits : n <= m].intent

(***************************************************************************)
(* Entity extractor                                                        *)
(***************************************************************************)

\* the checks without the one on the first two words
ItemMentioned_NoCompound(item, message_normalized) ==
    LET item_name_lower == StrLower(item.item)
        item_words == StrSplit(item_name_lower)
    IN  \/ Contains(item_name_lower, message_normalized)
        \/ \E w \in DOMAIN item_words :
              Len(item_words[w]) > 3 /\ Contains(item_words[w], message_normalized)

\* the four checks of extract_menu_items for one catalog entry
ItemMentioned(item, message_normalized) ==
    LET item_name_lower == StrLower(item.item)
        item_words == StrSplit(item_name_lower)
        main_name == IF Len(item_words) > 0 THEN item_words[1] ELSE ""
    IN  \/ Contains(item_name_lower, message_normalized)
        \/ Len(main_name) > 3 /\ Contains(main_name, message_normalized)
        \/ \E w \in DOMAIN item_words :
              Len(item_words[w]) > 3 /\ Contains(item_words[w], message_normalized)
        \/ /\ Len(item_words) >= 2
           /\ Contains(item_words[1] \o " " \o item_words[2], message_normalized)

SeqContains(seq, x) == \E i \in DOMAIN seq : seq[i] = x

RECURSIVE ExtractLoop(_, _, _)
\* the for loop of extract_menu_items over the rest of the catalog
ExtractLoop(rest, message_normalized, found_items) ==
    IF Len(rest) = 0 THEN found_items
    ELSE LET item == Head(rest)
             add == ItemMentioned(item, message_normalized)
                    /\ ~SeqContains(found_items, item)
         IN  ExtractLoop(Tail(rest), message_normalized,
                         IF add THEN Append(found_items, item) ELSE found_items)

extract_menu_items(message, menu) ==
    ExtractLoop(menu, CollapseSpaces(StrStrip(StrLower(message))), << >>)

number_words ==
    << [word |-> "one", num |-> 1], [word |-> "two", num |-> 2],
       [word |-> "three", num |-> 3], [word |-> "four", num |-> 4],
       [word |-> "five", num |-> 5], [word |-> "six", num |-> 6],
       [word |-> "seven", num |-> 7], [word |-> "eight", num |-> 8],
       [word |-> "nine", num |-> 9], [word |-> "ten", num |-> 10] >>

\* an extractor that looks for digits before number words
extract_quantity_DigitsFirst(message) ==
    LET message_lower == StrLower(message)
        hits == {n \in DOMAIN number_words : Contains(number_words[n].word, message_lower)}
        numbers == FirstDigits(message)
    IN  IF numbers # "" THEN ParseInt(numbers, 0)
        ELSE IF hits # {}
        THEN number_words[CHOOSE n \in hits : \A m \in hits : n <= m].num
        ELSE 1

extract_quantity(message) ==
    LET message_lower == StrLower(message)
        hits == {n \in DOMAIN number_words : Contains(number_words[n].word, message_lower)}
        numbers == FirstDigits(message)
    IN  IF hits # {}
        THEN number_words[CHOOSE n \in hits : \A m \in hits : n <= m].num
        ELSE IF numbers # "" THEN IntOf(numbers)
        ELSE 1

(***************************************************************************)
(* Knowledge store and retrieval engine                                    *)
(***************************************************************************)

\* Python's None, kept apart from every text value
None == "<None>"

\* str(x) of a text or None
Str(x) == IF x = None THEN "None" ELSE x

\* a part of the corpus _seed_knowledge_base adds, in its order
SeedEntries ==
    << [category |-> "nutrition", title |-> "Allergen Information",
        content |-> "WHEAT/GLUTEN: Pizzas, bread, desserts. DAIRY: Cheese, desserts, shakes. NUTS: Pesto (pine nuts), some desserts (almond). SOY: Some sauces. Ask for allergen-free options!",
        tags |-> <<"allergy", "allergen", "gluten", "dairy", "nuts", "soy">>],
       [category |-> "policies", title |-> "Refund and Cancellation Policy",
        content |-> "Cancel within 5 minutes for full refund. Quality guarantee: We'll remake any unsatisfactory order. Contact support for issues.",
        tags |-> <<"refund", "cancel", "return", "money back">>],
       [category |-> "faqs", title |-> "Customization Options",
        content |-> "Fully custom! Add extra toppings ($1.50), remove any topping (free). Gluten-free crust (+$3) and Vegan Cheese (+$2) available on all pizzas.",
        tags |-> <<"custom", "modify", "change", "extra", "topping", "vegan", "gluten">>],
       [category |-> "persona", title |-> "Who are you?",
        content |-> "I am the AI Pizza Palace Assistant! I'm a sophisticated AI trained to know everything about pizza and help you with your orders. While I don't eat (I run on electricity, not pepperoni), I have processed millions of pizza recipes!",
        tags |-> <<"who", "identity", "bot", "ai", "real", "human", "eat">>],
       [category |-> "persona", title |-> "Capabilities",
        content |-> "I can browse the menu, take your order, track deliveries, and answer deep philosophical questions about pineapples on pizza. Try asking me 'Why does dough rise?' or 'History of pizza'.",
        tags |-> <<"can", "do", "capability", "help", "function">>],
       [category |-> "pizza_science", title |-> "Why does dough rise?",
        content |-> "Dough rises because of **Yeast Fermentation**. Yeast eats the sugars in the flour and releases carbon dioxide (CO2) gas and ethanol. The gluten network traps these CO2 bubbles, causing the dough to expand and become airy.",
        tags |-> <<"dough", "rise", "yeast", "science", "chemistry", "fermentation">>] >>

\* an entry whose id starts again at 1 after the seed entries
NewEntry_IdsWrap(id_counter, category, title, content, tags) ==
    [id |-> (id_counter % Len(SeedEntries)) + 1, category |-> category,
     title |-> title, content |-> content, tags |-> tags, version |-> 1]

\* the entry add_entry builds when the id counter stands at id_counter
NewEntry(id_counter, category, title, content, tags) ==
    [id |-> id_counter + 1, category |-> category, title |-> title,
     content |-> content, tags |-> tags, version |-> 1]

\* KnowledgeBase.__init__: the seed entries added one by one
SeededEntries ==
    [i \in DOMAIN SeedEntries |->
        NewEntry(i - 1, SeedEntries[i].category, SeedEntries[i].title,
                 SeedEntries[i].content, SeedEntries[i].tags)]

\* the history of the store after __init__: the seed ids assigned, nothing
\* deleted, nothing updated
SeededHistory ==
    [assigned |-> DOMAIN SeedEntries, deleted |-> {},
     updates |-> [id \in DOMAIN SeedEntries |-> 0],
     committed |-> {SeededEntries[i] : i \in DOMAIN SeedEntries}]

\* the set(...) of a list of words
WordSet(words) == {words[i] : i \in DOMAIN words}

\* a score that adds the title-word weight once, however many words match
Score_TitleWordsOnce(entry, query_lower, query_words) ==
    LET title_lower == StrLower(entry.title)
        content_lower == StrLower(entry.content)
        tags == {StrLower(entry.tags[i]) : i \in DOMAIN entry.tags}
    IN  (IF Contains(query_lower, title_lower) THEN 50 ELSE 0)
        + (IF Contains(query_lower, content_lower) THEN 30 ELSE 0)
        + 20 * Cardinality({w \in query_words : w \in tags})
        + (IF \E w \in query_words : Contains(w, title_lower) THEN 10 ELSE 0)
        + 5 * Cardinality({w \in query_words : Contains(w, content_lower)})

\* the relevance score search computes for one entry
Score(entry, query_lower, query_words) ==
    LET title_lower == StrLower(entry.title)
        content_lower == StrLower(entry.content)
        tags == {StrLower(entry.tags[i]) : i \in DOMAIN entry.tags}
    IN  (IF Contains(query_lower, title_lower) THEN 50 ELSE 0)
        + (IF Contains(query_lower, content_lower) THEN 30 ELSE 0)
        + 20 * Cardinality({w \in query_words : w \in tags})
        + 10 * Cardinality({w \in query_words : Contains(w, title_lower)})
        + 5 * Cardinality({w \in query_words : Contains(w, content_lower)})

RECURSIVE ScoreLoop(_, _, _, _)
\* the for loop of search: the entries that pass the filter and score > 0
ScoreLoop(rest, query_lower, query_words, category) ==
    IF Len(rest) = 0 THEN << >>
    ELSE LET entry == Head(rest)
             more == ScoreLoop(Tail(rest), query_lower, query_words, category)
             skip == category # None /\ category # "" /\ entry.category # category
             score == Score(entry, query_lower, query_words)
         IN  IF ~skip /\ score > 0
             THEN <<[entry |-> entry, score |-> score]>> \o more
             ELSE more

RECURSIVE InsertByScore_TiesFirst(_, _)
\* an insertion that puts r ahead of the elements of equal score
InsertByScore_TiesFirst(sorted, r) ==
    IF Len(sorted) = 0 THEN <<r>>
    ELSE IF Head(sorted).score > r.score
         THEN <<Head(sorted)>> \o InsertByScore_TiesFirst(Tail(sorted), r)
         ELSE <<r>> \o sorted

RECURSIVE InsertByScore(_, _)
\* put r behind every element of the sorted list whose score is >= r's
InsertByScore(sorted, r) ==
    IF Len(sorted) = 0 THEN <<r>>
    ELSE IF Head(sorted).score >= r.score
         THEN <<Head(sorted)>> \o InsertByScore(Tail(sorted), r)
         ELSE <<r>> \o sorted

RECURSIVE SortByScore(_)
\* list.sort(key=_score, reverse=True): stable, by score descending
SortByScore(results) ==
    IF Len(results) = 0 THEN << >>
    ELSE InsertByScore(SortByScore(SubSeq(results, 1, Len(results) - 1)),
                       results[Len(results)])

\* the slice xs[:limit] of Python, for any integer limit
SliceTo(xs, limit) ==
    LET n == IF limit >= 0
             THEN (IF limit < Len(xs) THEN limit ELSE Len(xs))
             ELSE (IF Len(xs) + limit > 0 THEN Len(xs) + limit ELSE 0)
    IN  SubSeq(xs, 1, n)

search(entries, query, category, limit) ==
    LET query_lower == StrLower(query)
        query_words == WordSet(StrSplit(query_lower))
        results == SortByScore(ScoreLoop(entries, query_lower, query_words, category))
        top == SliceTo(results, limit)
    IN  [i \in DOMAIN top |-> top[i].entry]

(***************************************************************************)
(* Bounds and inputs                                                       *)
(***************************************************************************)

\* /chat requests started in one behaviour
MaxRequests == 3

\* worker threads of the pool that serves /chat
MaxThreads == 2

Threads == 1..MaxThreads

\* ChatMessage.user_id as sent by clients (None: the field is absent)
RequestUserIds == {"555", None}

\* the keys the session map can get
UserIds == {"555", "anonymous"}

\* ChatMessage.message as sent by clients
Messages ==
    { "hello", "show me the menu", "I want a Margherita Pizza",
      "tell me about cola", "track order #1", "where is my order",
      "confirm", "cancel", "order margherita", "order 2 cola and pepperoni",
      "order 0 margherita", "order 5", "help", "who are you",
      "refund policy", "asdf" }

\* the messages sent while another request is still being handled
RaceMessages == {"order margherita", "confirm", "cancel"}

\* rows of the menu_items table (a part of what /seed inserts)
SeedMenu ==
    << [id |-> 1, item |-> "Margherita Pizza", price |-> 1299, category |-> "Pizza"],
       [id |-> 2, item |-> "Pepperoni Pizza", price |-> 1499, category |-> "Pizza"],
       [id |-> 3, item |-> "Classic Cola", price |-> 299, category |-> "Drink"] >>

(***************************************************************************)
(* The pure calls process_message makes, tabulated once for the inputs     *)
(* above (same values as the operators, computed a single time)            *)
(***************************************************************************)

RECURSIVE Nines(_)
\* the numeral of n nines
Nines(n) ==
    IF n = 0 THEN ""
    ELSE IF n = 1 THEN "9"
    ELSE Nines(n \div 2) \o Nines(n - (n \div 2))

\* messages with a quantity beyond what float() and int() take
LongMessages ==
    { "order margherita " \o Nines(FloatDigits + 1),
      "order " \o Nines(MaxStrDigits + 1) }

TabulatedMessages == Messages \cup LongMessages

IntentTable == [m \in TabulatedMessages |-> classify_intent(m)]

\* self.classify_intent(message)
CallClassify(message) ==
    IF message \in TabulatedMessages THEN IntentTable[message] ELSE classify_intent(message)

QuantityTable == [m \in TabulatedMessages |-> extract_quantity(m)]

\* self.extract_quantity(message)
CallExtractQuantity(message) ==
    IF message \in TabulatedMessages THEN QuantityTable[message] ELSE extract_quantity(message)

SeedMenuItemsTable == [m \in TabulatedMessages |-> extract_menu_items(m, SeedMenu)]

\* self.extract_menu_items(message, menu_items)
CallExtractMenuItems(message, menu) ==
    IF message \in TabulatedMessages /\ menu = SeedMenu
    THEN SeedMenuItemsTable[message]
    ELSE extract_menu_items(message, menu)

SeedPersonaTable == [m \in Messages |-> search(SeededEntries, m, "persona", 1)]

SeedSearchTable == [m \in Messages |-> search(SeededEntries, m, None, 2)]

\* knowledge_base.search(message, category="persona", limit=1)
CallSearchPersona(entries, message) ==
    IF message \in Messages /\ entries = SeededEntries
    THEN SeedPersonaTable[message]
    ELSE search(entries, message, "persona", 1)

\* knowledge_base.search(message, limit=2)
CallSearchKb(entries, message) ==
    IF message \in Messages /\ entries = SeededEntries
    THEN SeedSearchTable[message]
    ELSE search(entries, message, None, 2)

(***************************************************************************)
(* State                                                                   *)
(***************************************************************************)

VARIABLES
    menu_items,     \* table menu_items, in row order
    orders,         \* table orders, in row order
    order_items,    \* table order_items, in row order
    kb_entries,     \* KnowledgeBase.entries
    kb_id_counter,  \* KnowledgeBase._id_counter
    kb_history,     \* what has happened to the store: ids assigned, ids deleted,
                    \* successful updates per id, and the entries as add_entry
                    \* and each completed update_entry left them
    user_contexts,  \* RestaurantChatbot.user_contexts: user id -> session object
    ctx_heap,       \* the session dicts ever created, by object identity
    list_heap,      \* the cart lists ever created, by object identity
    pc,             \* where each worker thread stands in chat()
    loc,            \* each worker thread's local variables
    nreq,           \* /chat requests started so far
    last_call       \* the process_message call that returned last: its input,
                    \* the caller's cart before it and the caller's session after it

vars == << menu_items, orders, order_items, kb_entries, kb_id_counter,
           kb_history, user_contexts, ctx_heap, list_heap, pc, loc, nreq, last_call >>

NoData == [kind |-> "None"]

\* the session of user u as a value (cart list dereferenced)
SessionOf(u) ==
    IF u \in DOMAIN user_contexts
    THEN LET c == ctx_heap[user_contexts[u]]
         IN  [exists |-> TRUE, cart |-> list_heap[c.cart],
              pending_order |-> c.pending_order, last_intent |-> c.last_intent,
              order_history |-> c.order_history]
    ELSE [exists |-> FALSE, cart |-> << >>, pending_order |-> None,
          last_intent |-> None, order_history |-> << >>]

AllSessions == [u \in UserIds |-> SessionOf(u)]

IdleLoc ==
    [ user_id |-> None, message |-> "", menu_data |-> << >>, orders_data |-> << >>,
      context |-> 0, intent |-> None, found_items |-> << >>, quantity |-> 0,
      idx |-> 0, existing |-> 0, existing_list |-> 0, tmp |-> 0,
      response |-> "", action |-> None, data |-> NoData, shown |-> << >>,
      cart |-> 0, total |-> 0,
      db_order_id |-> 0,
      q |-> "", category |-> None, limit |-> 0, results |-> << >>,
      scored |-> << >>,
      entry_id |-> 0, title |-> None, content |-> None, tags |-> << >>,
      endpoint |-> None, found |-> 0, returned |-> None, pre_kb |-> << >>,
      pre |-> << >>, pre_orders |-> << >>, pre_order_items |-> << >>,
      at_return |-> << >> ]

Init ==
    /\ menu_items = SeedMenu
    /\ orders = << >>
    /\ order_items = << >>
    /\ kb_entries = SeededEntries
    /\ kb_id_counter = Len(SeedEntries)
    /\ kb_history = SeededHistory
    /\ user_contexts = [u \in {} |-> 0]
    /\ ctx_heap = << >>
    /\ list_heap = << >>
    /\ pc = [t \in Threads |-> "idle"]
    /\ loc = [t \in Threads |-> IdleLoc]
    /\ nreq = 0
    /\ last_call = [user_id |-> None, message |-> "", intent |-> None,
                    cart_before |-> << >>, session |-> SessionOf(None)]

db_unchanged == UNCHANGED << menu_items, orders, order_items >>

kb_unchanged == UNCHANGED << kb_entries, kb_id_counter, kb_history >>

heap_unchanged == UNCHANGED << user_contexts, ctx_heap, list_heap >>

\* thread t moves to label with its locals updated
Goto(t, label, newloc) ==
    /\ pc' = [pc EXCEPT ![t] = label]
    /\ loc' = [loc EXCEPT ![t] = newloc]

\* process_message returns {response, action, data}; the response text is
\* kept as the name of the template the branch fills in
Return(t, response, action, data) ==
    Goto(t, "pm_return",
         [loc[t] EXCEPT !.response = response, !.action = action, !.data = data])

(***************************************************************************)
(* chat(): the request arrives, the snapshots are read                     *)
(***************************************************************************)

\* db.query(Order).all() turned into orders_data
OrdersData ==
    [i \in DOMAIN orders |->
        [id |-> orders[i].id, status |-> orders[i].status,
         total_amount |-> orders[i].total_amount,
         customer_phone |-> orders[i].customer_phone,
         created_at |-> orders[i].created_at]]

chat_begin(t, user_in, msg) ==
    /\ pc[t] = "idle"
    /\ nreq < MaxRequests
    /\ nreq' = nreq + 1
    /\ Goto(t, "guc_check",
            [IdleLoc EXCEPT !.message = msg,
                            !.user_id = IF user_in = None THEN "anonymous" ELSE user_in,
                            !.menu_data = menu_items,
                            !.orders_data = OrdersData,
                            !.pre = AllSessions,
                            !.pre_orders = orders,
                            !.pre_order_items = order_items])
    /\ db_unchanged /\ kb_unchanged /\ heap_unchanged
    /\ UNCHANGED last_call

(***************************************************************************)
(* get_user_context                                                        *)
(***************************************************************************)

guc_check(t) ==
    /\ pc[t] = "guc_check"
    /\ Goto(t, IF loc[t].user_id \notin DOMAIN user_contexts
               THEN "guc_create" ELSE "guc_return", loc[t])
    /\ db_unchanged /\ kb_unchanged /\ heap_unchanged
    /\ UNCHANGED << nreq, last_call >>

\* the dict get_user_context stores for a new user; its cart is a new list
NewContext(cart_ref) ==
    [cart |-> cart_ref, pending_order |-> None, last_intent |-> None,
     order_history |-> << >>]

guc_create(t) ==
    /\ pc[t] = "guc_create"
    /\ list_heap' = Append(list_heap, << >>)
    /\ ctx_heap' = Append(ctx_heap, NewContext(Len(list_heap) + 1))
    /\ user_contexts' =
          [u \in DOMAIN user_contexts \cup {loc[t].user_id} |->
              IF u = loc[t].user_id THEN Len(ctx_heap) + 1 ELSE user_contexts[u]]
    /\ Goto(t, "guc_return", loc[t])
    /\ db_unchanged /\ kb_unchanged
    /\ UNCHANGED << nreq, last_call >>

\* a lookup that hands every caller the session created first
LookupContext_Shared(user_id) ==
    IF 1 \in DOMAIN ctx_heap THEN 1 ELSE user_contexts[user_id]

\* return self.user_contexts[user_id]
LookupContext(user_id) == user_contexts[user_id]

guc_return(t) ==
    /\ pc[t] = "guc_return"
    /\ Goto(t, "classify", [loc[t] EXCEPT !.context = LookupContext(loc[t].user_id)])
    /\ db_unchanged /\ kb_unchanged /\ heap_unchanged
    /\ UNCHANGED << nreq, last_call >>

(***************************************************************************)
(* process_message: classification, then the handler of the intent         *)
(***************************************************************************)

\* a step that leaves last_intent alone when no pattern matches
pm_classify_KeepsOnUnknown(t) ==
    /\ pc[t] = "classify"
    /\ LET intent == CallClassify(loc[t].message)
       IN  /\ ctx_heap' = IF intent = "UNKNOWN" THEN ctx_heap
                          ELSE [ctx_heap EXCEPT ![loc[t].context].last_intent = intent]
           /\ Goto(t, "dispatch", [loc[t] EXCEPT !.intent = intent])
    /\ db_unchanged /\ kb_unchanged
    /\ UNCHANGED << user_contexts, list_heap, nreq, last_call >>

\* intent = classify_intent(message); context["last_intent"] = intent; sleep
pm_classify(t) ==
    /\ pc[t] = "classify"
    /\ LET intent == CallClassify(loc[t].message)
       IN  /\ ctx_heap' = [ctx_heap EXCEPT ![loc[t].context].last_intent = intent]
           /\ Goto(t, "dispatch", [loc[t] EXCEPT !.intent = intent])
    /\ db_unchanged /\ kb_unchanged
    /\ UNCHANGED << user_contexts, list_heap, nreq, last_call >>

\* a handler that only reads: the frame of every such branch
ReadOnlyHandler(t, intent) ==
    /\ pc[t] = "dispatch"
    /\ loc[t].intent = intent
    /\ db_unchanged /\ kb_unchanged /\ heap_unchanged
    /\ UNCHANGED << nreq, last_call >>

handle_persona_query(t) ==
    /\ ReadOnlyHandler(t, "PERSONA_QUERY")
    /\ LET kb_results == CallSearchPersona(kb_entries, loc[t].message)
       IN  Return(t, IF kb_results # << >> THEN "persona_entry" ELSE "persona_default",
                  "persona_response", NoData)

handle_greeting(t) ==
    /\ ReadOnlyHandler(t, "GREETING")
    /\ Return(t, "welcome", None, NoData)

RECURSIVE ItemsOfCategory(_, _)
\* [i for i in menu_items if i["category"].lower() == category.lower()]
ItemsOfCategory(menu, category) ==
    IF menu = << >> THEN << >>
    ELSE (IF StrLower(Head(menu).category) = StrLower(category)
          THEN << Head(menu) >> ELSE << >>)
         \o ItemsOfCategory(Tail(menu), category)

\* format_menu_response(menu_items, category), as the items the text lists
\* (none: the text is "Sorry, no items found in that category.")
format_menu_response(menu, category) ==
    IF category \notin {None, ""} THEN ItemsOfCategory(menu, category) ELSE menu

\* the branch returns the formatted menu with its action and data
ReturnMenu(t, items, action, data) ==
    Goto(t, "pm_return",
         [loc[t] EXCEPT !.response = IF items = << >> THEN "no_items_found" ELSE "menu",
                        !.shown = items, !.action = action, !.data = data])

handle_menu_query(t) ==
    /\ ReadOnlyHandler(t, "MENU_QUERY")
    /\ ReturnMenu(t, format_menu_response(loc[t].menu_data, None), "show_menu",
                  [kind |-> "items", items |-> loc[t].menu_data])

\* the category keywords, in the order the handler tries them
CategoryKeywords == <<"pizza", "drink", "dessert", "side", "appetizer", "beverage">>

\* the position in the message where word occurs first (0: nowhere)
FirstOccurrence(word, s) ==
    IF Contains(word, s)
    THEN CHOOSE i \in 1..Len(s) :
            /\ i + Len(word) - 1 <= Len(s)
            /\ SubSeq(s, i, i + Len(word) - 1) = word
            /\ \A j \in 1..(i - 1) : SubSeq(s, j, j + Len(word) - 1) # word
    ELSE 0

\* an extraction that takes the keyword the message mentions first
ExtractCategory_FirstInMessage(message) ==
    LET message_lower == StrLower(message)
        hits == {n \in DOMAIN CategoryKeywords : Contains(CategoryKeywords[n], message_lower)}
    IN  IF hits = {} THEN None
        ELSE Capitalize(CategoryKeywords[
                CHOOSE n \in hits : \A m \in hits :
                   FirstOccurrence(CategoryKeywords[n], message_lower)
                      <= FirstOccurrence(CategoryKeywords[m], message_lower)])

ExtractCategory(message) ==
    LET message_lower == StrLower(message)
        hits == {n \in DOMAIN CategoryKeywords : Contains(CategoryKeywords[n], message_lower)}
    IN  IF hits = {} THEN None
        ELSE Capitalize(CategoryKeywords[CHOOSE n \in hits : \A m \in hits : n <= m])

handle_category_query(t) ==
    /\ ReadOnlyHandler(t, "CATEGORY_QUERY")
    /\ LET category == ExtractCategory(loc[t].message)
       IN  ReturnMenu(t, format_menu_response(loc[t].menu_data, category),
                      "show_category", [kind |-> "category", category |-> category])

handle_item_details(t) ==
    /\ ReadOnlyHandler(t, "ITEM_DETAILS")
    /\ LET found_items == CallExtractMenuItems(loc[t].message, loc[t].menu_data)
       IN  IF found_items # << >>
           THEN Return(t, "item_details", "show_item",
                       [kind |-> "item", item |-> found_items[1]])
           ELSE Return(t, "item_not_found", None, NoData)

(***************************************************************************)
(* ORDER_INTENT                                                            *)
(***************************************************************************)

\* a lookup that compares the last line of the cart only
FindExisting_LastOnly(cart, id) ==
    IF cart # << >> /\ cart[Len(cart)].menu_item_id = id THEN Len(cart) ELSE 0

\* next((i for i in cart if i["menu_item_id"] == id), None), as the position
\* of the line in the list (0: None)
FindExisting(cart, id) ==
    LET hits == {n \in DOMAIN cart : cart[n].menu_item_id = id}
    IN  IF hits = {} THEN 0 ELSE CHOOSE n \in hits : \A m \in hits : n <= m

\* an exception leaves process_message
Raise(t) == Goto(t, "pm_raised", loc[t])

\* the dict cart_item built for a found item
CartItem(item, quantity) ==
    [menu_item_id |-> item.id, item |-> item.item, price |-> item.price,
     quantity |-> quantity]

handle_order_intent(t) ==
    /\ pc[t] = "dispatch"
    /\ loc[t].intent = "ORDER_INTENT"
    /\ LET found_items == CallExtractMenuItems(loc[t].message, loc[t].menu_data)
           quantity == CallExtractQuantity(loc[t].message)
       IN  IF quantity = Unparsable
           THEN Goto(t, "pm_raised", [loc[t] EXCEPT !.found_items = found_items])
           ELSE IF found_items # << >>
           THEN Goto(t, "order_find",
                     [loc[t] EXCEPT !.found_items = found_items,
                                    !.quantity = quantity, !.idx = 1])
           ELSE Return(t, "ask_which_item", None, NoData)
    /\ db_unchanged /\ kb_unchanged /\ heap_unchanged
    /\ UNCHANGED << nreq, last_call >>

\* the loop moves on to the next found item, or leaves the loop
NextItem(t, newloc) ==
    IF loc[t].idx < Len(loc[t].found_items)
    THEN Goto(t, "order_find", [newloc EXCEPT !.idx = loc[t].idx + 1])
    ELSE Goto(t, "order_done", newloc)

\* existing = next(...): the session's current cart list is searched
order_find(t) ==
    /\ pc[t] = "order_find"
    /\ LET cart_ref == ctx_heap[loc[t].context].cart
           existing == FindExisting(list_heap[cart_ref], loc[t].found_items[loc[t].idx].id)
       IN  Goto(t, IF existing # 0 THEN "order_incr_read" ELSE "order_append",
                [loc[t] EXCEPT !.existing = existing, !.existing_list = cart_ref])
    /\ db_unchanged /\ kb_unchanged /\ heap_unchanged
    /\ UNCHANGED << nreq, last_call >>

\* existing["quantity"] += quantity, first half: the old value is read
order_incr_read(t) ==
    /\ pc[t] = "order_incr_read"
    /\ Goto(t, "order_incr_write",
            [loc[t] EXCEPT !.tmp = list_heap[loc[t].existing_list][loc[t].existing].quantity])
    /\ db_unchanged /\ kb_unchanged /\ heap_unchanged
    /\ UNCHANGED << nreq, last_call >>

\* the value stored back into the line
IncrementedQuantity(old, quantity) ==
    IF Unconvertible \in {old, quantity} THEN Unconvertible ELSE old + quantity

\* a store that also brings the line up to the name and price of the item
\* as the menu snapshot of this call has it
order_incr_write_TakesNewPrice(t) ==
    /\ pc[t] = "order_incr_write"
    /\ list_heap' =
          [list_heap EXCEPT ![loc[t].existing_list][loc[t].existing] =
              [@ EXCEPT !.quantity = IncrementedQuantity(loc[t].tmp, loc[t].quantity),
                        !.item = loc[t].found_items[loc[t].idx].item,
                        !.price = loc[t].found_items[loc[t].idx].price]]
    /\ NextItem(t, loc[t])
    /\ db_unchanged /\ kb_unchanged
    /\ UNCHANGED << user_contexts, ctx_heap, nreq, last_call >>

\* a store that takes the line out of its place and puts it last
order_incr_write_MovesLast(t) ==
    /\ pc[t] = "order_incr_write"
    /\ list_heap' =
          [list_heap EXCEPT ![loc[t].existing_list] =
              Append(SubSeq(@, 1, loc[t].existing - 1)
                        \o SubSeq(@, loc[t].existing + 1, Len(@)),
                     [@[loc[t].existing] EXCEPT
                         !.quantity = IncrementedQuantity(loc[t].tmp, loc[t].quantity)])]
    /\ NextItem(t, loc[t])
    /\ db_unchanged /\ kb_unchanged
    /\ UNCHANGED << user_contexts, ctx_heap, nreq, last_call >>

\* existing["quantity"] += quantity, second half: the sum is stored
order_incr_write(t) ==
    /\ pc[t] = "order_incr_write"
    /\ list_heap' =
          [list_heap EXCEPT ![loc[t].existing_list][loc[t].existing].quantity =
                                IncrementedQuantity(loc[t].tmp, loc[t].quantity)]
    /\ NextItem(t, loc[t])
    /\ db_unchanged /\ kb_unchanged
    /\ UNCHANGED << user_contexts, ctx_heap, nreq, last_call >>

\* context["cart"].append(cart_item)
order_append(t) ==
    /\ pc[t] = "order_append"
    /\ list_heap' =
          [list_heap EXCEPT ![ctx_heap[loc[t].context].cart] =
              Append(@, CartItem(loc[t].found_items[loc[t].idx], loc[t].quantity))]
    /\ NextItem(t, loc[t])
    /\ db_unchanged /\ kb_unchanged
    /\ UNCHANGED << user_contexts, ctx_heap, nreq, last_call >>

\* item["price"] * item["quantity"] and its :.2f format need every quantity
\* of the cart as a float
CartConverts(cart) == \A i \in DOMAIN cart : cart[i].quantity # Unconvertible

\* format_cart_response(context["cart"]), then
\* data = {"cart": context["cart"]}: the list itself, not a copy
order_done(t) ==
    /\ pc[t] = "order_done"
    /\ IF CartConverts(list_heap[ctx_heap[loc[t].context].cart])
       THEN Return(t, "added_to_cart", "add_to_cart",
                   [kind |-> "cart", cart |-> ctx_heap[loc[t].context].cart])
       ELSE Raise(t)
    /\ db_unchanged /\ kb_unchanged /\ heap_unchanged
    /\ UNCHANGED << nreq, last_call >>

(***************************************************************************)
(* CONFIRM_ORDER and CANCEL_ORDER                                          *)
(***************************************************************************)

\* the truth value Python gives a list in `if cart:`
CartTruthy_Always(cart) == TRUE

CartTruthy_Never(cart) == FALSE

CartTruthy(cart) == cart # << >>

RECURSIVE CartTotal_NoQuantity(_)
CartTotal_NoQuantity(cart) ==
    IF Len(cart) = 0 THEN 0
    ELSE Head(cart).price + CartTotal_NoQuantity(Tail(cart))

RECURSIVE CartTotal(_)
\* sum(i["price"] * i["quantity"] for i in cart)
CartTotal(cart) ==
    IF Len(cart) = 0 THEN 0
    ELSE Head(cart).price * Head(cart).quantity + CartTotal(Tail(cart))

\* if context["cart"]:
handle_confirm_order(t) ==
    /\ pc[t] = "dispatch"
    /\ loc[t].intent = "CONFIRM_ORDER"
    /\ IF CartTruthy(list_heap[ctx_heap[loc[t].context].cart])
       THEN Goto(t, "confirm_build", loc[t])
       ELSE Return(t, "cart_is_empty", None, NoData)
    /\ db_unchanged /\ kb_unchanged /\ heap_unchanged
    /\ UNCHANGED << nreq, last_call >>

\* the total is computed; data carries the cart list itself
confirm_build(t) ==
    /\ pc[t] = "confirm_build"
    /\ LET cart_ref == ctx_heap[loc[t].context].cart
       IN  IF CartConverts(list_heap[cart_ref])
           THEN Return(t, "order_confirmed", "confirm_order",
                       [kind |-> "confirm", cart |-> cart_ref,
                        total |-> CartTotal(list_heap[cart_ref]),
                        requires_details |-> TRUE])
           ELSE Raise(t)
    /\ db_unchanged /\ kb_unchanged /\ heap_unchanged
    /\ UNCHANGED << nreq, last_call >>

\* context["cart"] = [] when the cart is not empty
handle_cancel_order(t) ==
    /\ pc[t] = "dispatch"
    /\ loc[t].intent = "CANCEL_ORDER"
    /\ IF CartTruthy(list_heap[ctx_heap[loc[t].context].cart])
       THEN /\ list_heap' = Append(list_heap, << >>)
            /\ ctx_heap' = [ctx_heap EXCEPT ![loc[t].context].cart = Len(list_heap) + 1]
            /\ Return(t, "cart_cleared", "clear_cart", NoData)
       ELSE /\ UNCHANGED << list_heap, ctx_heap >>
            /\ Return(t, "nothing_to_cancel", None, NoData)
    /\ db_unchanged /\ kb_unchanged
    /\ UNCHANGED << user_contexts, nreq, last_call >>

(***************************************************************************)
(* TRACK_ORDER, KB_QUERY, SUPPORT and the else branch                      *)
(***************************************************************************)

\* a selection that takes the identifier for a position in the snapshot
TargetOrder_ByPosition(message, user_id, snapshot) ==
    LET digits == FirstDigits(message)
        order_id == IF digits # "" THEN ParseInt(digits, 0) ELSE 0
        by_phone == {n \in DOMAIN snapshot : Str(snapshot[n].customer_phone) = user_id}
    IN  IF order_id # 0
        THEN (IF order_id \in DOMAIN snapshot THEN order_id ELSE 0)
        ELSE IF by_phone # {}
             THEN CHOOSE n \in by_phone : \A m \in by_phone : n >= m
             ELSE 1

\* the position in a non-empty snapshot of the order the TRACK_ORDER branch
\* selects (0: target_order is None)
TargetOrder(message, user_id, snapshot) ==
    LET digits == FirstDigits(message)
        order_id == IF digits # "" THEN ParseInt(digits, 0) ELSE 0
        by_id == {n \in DOMAIN snapshot : snapshot[n].id = order_id}
        by_phone == {n \in DOMAIN snapshot : Str(snapshot[n].customer_phone) = user_id}
    IN  IF order_id # 0
        THEN (IF by_id = {} THEN 0 ELSE CHOOSE n \in by_id : \A m \in by_id : n <= m)
        ELSE IF by_phone # {}
             THEN CHOOSE n \in by_phone : \A m \in by_phone : n >= m
             ELSE 1

handle_track_order(t) ==
    /\ ReadOnlyHandler(t, "TRACK_ORDER")
    /\ IF loc[t].orders_data # << >>
       THEN LET target_order ==
                    TargetOrder(loc[t].message, loc[t].user_id, loc[t].orders_data)
            IN  IF target_order # 0
                THEN Return(t, "order_status", "show_order_status",
                            [kind |-> "order", order |-> loc[t].orders_data[target_order]])
                ELSE Return(t, "order_not_found", None, NoData)
       ELSE Return(t, "no_orders_yet", None, NoData)

handle_kb_query(t) ==
    /\ ReadOnlyHandler(t, "KB_QUERY")
    /\ LET kb_results == CallSearchKb(kb_entries, loc[t].message)
       IN  IF kb_results # << >>
           THEN Return(t, IF Len(kb_results) > 1 THEN "kb_entry_related" ELSE "kb_entry",
                       "kb_response", [kind |-> "entries", entries |-> kb_results])
           ELSE Return(t, "kb_not_found", "kb_fallback", NoData)

handle_support(t) ==
    /\ ReadOnlyHandler(t, "SUPPORT")
    /\ Return(t, "support", "support", NoData)

\* an else branch that records the message in the session
handle_unknown_Recording(t) ==
    /\ pc[t] = "dispatch"
    /\ loc[t].intent = "UNKNOWN"
    /\ ctx_heap' = [ctx_heap EXCEPT ![loc[t].context].order_history =
                                        Append(@, loc[t].message)]
    /\ Return(t, "help_menu", None, NoData)
    /\ db_unchanged /\ kb_unchanged
    /\ UNCHANGED << user_contexts, list_heap, nreq, last_call >>

\* else: the help menu
handle_unknown(t) ==
    /\ ReadOnlyHandler(t, "UNKNOWN")
    /\ Return(t, "help_menu", None, NoData)

(***************************************************************************)
(* chat(): a confirm outcome is turned into a persisted order              *)
(***************************************************************************)

\* process_message has returned; the endpoint tests
\* action == "confirm_order" and data, then takes cart = data["cart"]
chat_check_confirm(t) ==
    /\ pc[t] = "pm_return"
    /\ last_call' = [user_id |-> loc[t].user_id, message |-> loc[t].message,
                     intent |-> loc[t].intent,
                     cart_before |-> loc[t].pre[loc[t].user_id].cart,
                     session |-> SessionOf(loc[t].user_id)]
    /\ IF loc[t].action = "confirm_order" /\ loc[t].data.kind = "confirm"
          /\ CartTruthy(list_heap[loc[t].data.cart])
       THEN Goto(t, "persist_order",
                 [loc[t] EXCEPT !.cart = loc[t].data.cart, !.at_return = AllSessions])
       ELSE Goto(t, "respond", [loc[t] EXCEPT !.at_return = AllSessions])
    /\ db_unchanged /\ kb_unchanged /\ heap_unchanged
    /\ UNCHANGED nreq

\* the row db.add(db_order); db.commit() inserts
NewOrder(user_id, total) ==
    [id |-> Len(orders) + 1,
     status |-> "Pending",
     total_amount |-> total,
     customer_phone |-> IF user_id # "anonymous" THEN user_id ELSE None,
     created_at |-> Len(orders) + 1]

\* total = sum(...); db.add(db_order); db.commit(): the commit succeeds or raises
persist_order(t) ==
    /\ pc[t] = "persist_order"
    /\ LET total == CartTotal(list_heap[loc[t].cart])
       IN  \/ /\ orders' = Append(orders, NewOrder(loc[t].user_id, total))
              /\ Goto(t, "persist_items",
                      [loc[t] EXCEPT !.total = total, !.db_order_id = Len(orders) + 1])
           \/ /\ UNCHANGED orders
              /\ Goto(t, "failed", loc[t])
    /\ kb_unchanged /\ heap_unchanged
    /\ UNCHANGED << menu_items, order_items, nreq, last_call >>

\* the OrderItem rows built from the cart
OrderItemRows(order_id, cart) ==
    [i \in DOMAIN cart |->
        [order_id |-> order_id, menu_item_id |-> cart[i].menu_item_id,
         quantity |-> cart[i].quantity, price |-> cart[i].price]]

\* an endpoint that empties the cart before the item rows are committed
persist_items_ClearsFirst(t) ==
    /\ pc[t] = "persist_items"
    /\ list_heap' = Append(list_heap, << >>)
    /\ ctx_heap' = [ctx_heap EXCEPT ![user_contexts[loc[t].user_id]].cart =
                                        Len(list_heap) + 1]
    /\ \/ /\ order_items' =
                order_items \o OrderItemRows(loc[t].db_order_id, list_heap[loc[t].cart])
          /\ Goto(t, "respond", [loc[t] EXCEPT !.response = "order_placed"])
       \/ /\ UNCHANGED order_items
          /\ Goto(t, "failed", loc[t])
    /\ kb_unchanged
    /\ UNCHANGED << menu_items, orders, user_contexts, nreq, last_call >>

\* for item in cart: db.add(OrderItem(...)); db.commit(): succeeds or raises
persist_items(t) ==
    /\ pc[t] = "persist_items"
    /\ \/ /\ order_items' =
                order_items \o OrderItemRows(loc[t].db_order_id, list_heap[loc[t].cart])
          /\ Goto(t, "clear_cart", loc[t])
       \/ /\ UNCHANGED order_items
          /\ Goto(t, "failed", loc[t])
    /\ kb_unchanged /\ heap_unchanged
    /\ UNCHANGED << menu_items, orders, nreq, last_call >>

\* chatbot.user_contexts[user_id]["cart"] = []
clear_cart(t) ==
    /\ pc[t] = "clear_cart"
    /\ list_heap' = Append(list_heap, << >>)
    /\ ctx_heap' = [ctx_heap EXCEPT ![user_contexts[loc[t].user_id]].cart =
                                        Len(list_heap) + 1]
    /\ Goto(t, "respond", [loc[t] EXCEPT !.response = "order_placed"])
    /\ db_unchanged /\ kb_unchanged
    /\ UNCHANGED << user_contexts, nreq, last_call >>

\* return ChatResponse(**result)
chat_respond(t) ==
    /\ pc[t] = "respond"
    /\ Goto(t, "idle", IdleLoc)
    /\ db_unchanged /\ kb_unchanged /\ heap_unchanged
    /\ UNCHANGED << nreq, last_call >>

\* the exception of a failed commit, or one that left process_message,
\* leaves chat()
chat_raise(t) ==
    /\ pc[t] \in {"failed", "pm_raised"}
    /\ Goto(t, "idle", IdleLoc)
    /\ db_unchanged /\ kb_unchanged /\ heap_unchanged
    /\ UNCHANGED << nreq, last_call >>

(***************************************************************************)
(* Specifications                                                          *)
(***************************************************************************)

\* every step of a request after its arrival
Step(t) ==
    \/ guc_check(t) \/ guc_create(t) \/ guc_return(t) \/ pm_classify(t)
    \/ handle_persona_query(t) \/ handle_greeting(t) \/ handle_menu_query(t)
    \/ handle_category_query(t) \/ handle_item_details(t)
    \/ handle_order_intent(t) \/ order_find(t) \/ order_incr_read(t)
    \/ order_incr_write(t) \/ order_append(t) \/ order_done(t)
    \/ handle_confirm_order(t) \/ confirm_build(t) \/ handle_cancel_order(t)
    \/ handle_track_order(t) \/ handle_kb_query(t) \/ handle_support(t)
    \/ handle_unknown(t)
    \/ chat_check_confirm(t) \/ persist_order(t) \/ persist_items(t)
    \/ clear_cart(t) \/ chat_respond(t) \/ chat_raise(t)

\* a request arrives while no other request is being handled; all workers
\* are idle and alike then, so the first one takes it
chat_begin_serial(t) ==
    /\ \A o \in Threads : pc[o] = "idle" /\ t <= o
    /\ \E u \in RequestUserIds, m \in Messages : chat_begin(t, u, m)

\* a request arrives at an idle worker while another request is in flight;
\* the overlaps explored are those among the messages that touch the cart
chat_begin_overlap(t) ==
    /\ \E o \in Threads : pc[o] # "idle"
    /\ \A o \in Threads : pc[o] # "idle" => loc[o].message \in RaceMessages
    /\ \E u \in RequestUserIds, m \in RaceMessages : chat_begin(t, u, m)

Next == \E t \in Threads : chat_begin_serial(t) \/ Step(t)

\* requests handled one at a time
Spec == Init /\ [][Next]_vars

NextConc == \E t \in Threads : chat_begin_serial(t) \/ chat_begin_overlap(t) \/ Step(t)

\* requests handled by the thread pool, interleaved
SpecConc == Init /\ [][NextConc]_vars

(***************************************************************************)
(* The functions taken one call at a time: the arguments are drawn in the  *)
(* initial state, the step is the call                                     *)
(***************************************************************************)

\* words put together in one message
MaxWords == 2

\* orders in the orders table
MaxOrders == 4

\* the largest limit passed to search
MaxLimit == 3

RECURSIVE Sentences(_, _)
\* the messages of 1..n of the given phrases, separated by one blank
Sentences(words, n) ==
    IF n <= 1 THEN words
    ELSE LET shorter == Sentences(words, n - 1)
         IN  shorter \cup {s \o " " \o w : s \in shorter, w \in words}

\* a state with worker 1 at label, holding the locals l, and the other
\* workers idle; the stores as after start-up
CallState(label, l) ==
    /\ menu_items = SeedMenu
    /\ orders = << >>
    /\ order_items = << >>
    /\ kb_entries = SeededEntries
    /\ kb_id_counter = Len(SeedEntries)
    /\ kb_history = SeededHistory
    /\ user_contexts = [u \in {} |-> 0]
    /\ ctx_heap = << >>
    /\ list_heap = << >>
    /\ pc = [t \in Threads |-> IF t = 1 THEN label ELSE "idle"]
    /\ loc = [t \in Threads |-> IF t = 1 THEN l ELSE IdleLoc]
    /\ nreq = 0
    /\ last_call = [user_id |-> None, message |-> "", intent |-> None,
                    cart_before |-> << >>, session |-> SessionOf(None)]

\* the frame of a call that touches no store
call_frame ==
    /\ db_unchanged /\ kb_unchanged /\ heap_unchanged
    /\ UNCHANGED << nreq, last_call >>

\* ---- classify_intent(message)

ClassifyWords ==
    { "Hello", "menu", "pizza", "describe", "where is my order", "track",
      "confirm", "cancel", "I want", "order", "order status", "help",
      "who are you", "refund", "asdf" }

ClassifyMessages ==
    Sentences(ClassifyWords, MaxWords)
        \cup {"", "  MENU  ", "I want a pizza", "place my order"}

InitClassify ==
    \E m \in ClassifyMessages :
        CallState("call_classify_intent", [IdleLoc EXCEPT !.message = m])

call_classify_intent(t) ==
    /\ pc[t] = "call_classify_intent"
    /\ Goto(t, "called_classify_intent",
            [loc[t] EXCEPT !.intent = classify_intent(loc[t].message)])
    /\ call_frame

NextClassify == \E t \in Threads : call_classify_intent(t)

SpecClassify == InitClassify /\ [][NextClassify]_vars

\* ---- extract_quantity(message)

QuantityWords ==
    { "two", "ten", "one", "Three", "5", "12", "0", "gluten", "pizza",
      "order", "x2" }

QuantityMessages ==
    Sentences(QuantityWords, MaxWords)
        \cup {"", "two pepperoni pizzas", "order 5"}

InitQuantity ==
    \E m \in QuantityMessages :
        CallState("call_extract_quantity", [IdleLoc EXCEPT !.message = m])

call_extract_quantity(t) ==
    /\ pc[t] = "call_extract_quantity"
    /\ Goto(t, "called_extract_quantity",
            [loc[t] EXCEPT !.quantity = extract_quantity(loc[t].message)])
    /\ call_frame

NextQuantity == \E t \in Threads : call_extract_quantity(t)

SpecQuantity == InitQuantity /\ [][NextQuantity]_vars

\* ---- extract_menu_items(message, menu_items)

ExtractWords ==
    { "margherita", "Pepperoni  Pizza", "cola", "pizza", "ice tea", "tea",
      "CLASSIC", "garlic", "want", "hot", "cream" }

ExtractMessages == Sentences(ExtractWords, MaxWords) \cup {""}

\* a catalog whose names have short words
ShortNamesMenu ==
    << [id |-> 1, item |-> "Ice Tea Mix", price |-> 399, category |-> "Drink"],
       [id |-> 2, item |-> "Hot Dog", price |-> 599, category |-> "Side"],
       [id |-> 3, item |-> "Garlic Bread", price |-> 499, category |-> "Side"],
       [id |-> 4, item |-> "Tea", price |-> 199, category |-> "Drink"] >>

\* a catalog whose names end in the words many names share
CommonWordsMenu ==
    << [id |-> 1, item |-> "Vanilla Ice Cream", price |-> 599, category |-> "Dessert"],
       [id |-> 2, item |-> "Veggie Pizza", price |-> 1399, category |-> "Pizza"] >>

Catalogs == {SeedMenu, ShortNamesMenu, CommonWordsMenu, << >>}

InitExtract ==
    \E m \in ExtractMessages, menu \in Catalogs :
        CallState("call_extract_menu_items",
                  [IdleLoc EXCEPT !.message = m, !.menu_data = menu])

call_extract_menu_items(t) ==
    /\ pc[t] = "call_extract_menu_items"
    /\ Goto(t, "called_extract_menu_items",
            [loc[t] EXCEPT !.found_items =
                               extract_menu_items(loc[t].message, loc[t].menu_data)])
    /\ call_frame

NextExtract == \E t \in Threads : call_extract_menu_items(t)

SpecExtract == InitExtract /\ [][NextExtract]_vars

\* ---- process_message, TRACK_ORDER branch

\* row id of the orders table: the phone alternates between a customer's
\* and none (an order confirmed by the anonymous user)
OrderRow(id) ==
    [id |-> id, status |-> "Pending", total_amount |-> 1299 * id,
     customer_phone |-> IF id % 2 = 1 THEN "555" ELSE None,
     created_at |-> id]

\* the orderings of the rows with ids in S: db.query(Order).all() has no
\* ORDER BY, so the rows come in an order the database picks
RECURSIVE Orderings(_)
Orderings(S) ==
    IF S = {} THEN { << >> }
    ELSE UNION { {<<OrderRow(id)>> \o rest : rest \in Orderings(S \ {id})} : id \in S }

Snapshots == UNION { Orderings(1..k) : k \in 0..MaxOrders }

TrackMessages ==
    { "track order #1", "track order #3", "track order #9", "track order #0",
      "where is my order", "track my order" }

TrackUsers == {"555", "anonymous", "None"}

InitTrack ==
    \E m \in TrackMessages, u \in TrackUsers, snapshot \in Snapshots :
        /\ classify_intent(m) = "TRACK_ORDER"
        /\ menu_items = SeedMenu
        /\ orders = [i \in 1..Len(snapshot) |-> OrderRow(i)]
        /\ order_items = << >>
        /\ kb_entries = SeededEntries
        /\ kb_id_counter = Len(SeedEntries)
        /\ kb_history = SeededHistory
        /\ user_contexts = [v \in {u} |-> 1]
        /\ ctx_heap = << [NewContext(1) EXCEPT !.last_intent = "TRACK_ORDER"] >>
        /\ list_heap = << << >> >>
        /\ pc = [t \in Threads |-> IF t = 1 THEN "dispatch" ELSE "idle"]
        /\ loc = [t \in Threads |->
                    IF t = 1
                    THEN [IdleLoc EXCEPT !.message = m, !.user_id = u,
                                         !.menu_data = SeedMenu,
                                         !.orders_data = snapshot,
                                         !.context = 1,
                                         !.intent = "TRACK_ORDER"]
                    ELSE IdleLoc]
        /\ nreq = 1
        /\ last_call = [user_id |-> None, message |-> "", intent |-> None,
                        cart_before |-> << >>, session |-> SessionOf(None)]

NextTrack == \E t \in Threads : handle_track_order(t)

SpecTrack == InitTrack /\ [][NextTrack]_vars

\* ---- process_message, CATEGORY_QUERY branch

CategoryWords ==
    { "pizza", "drinks", "show desserts", "SIDE", "appetizer", "Beverages",
      "category", "besides" }

CategoryMessages == Sentences(CategoryWords, MaxWords)

\* a catalog whose categories differ in case from the keywords
MixedCaseMenu ==
    << [id |-> 1, item |-> "Margherita Pizza", price |-> 1299, category |-> "PIZZA"],
       [id |-> 2, item |-> "Classic Cola", price |-> 299, category |-> "drink"],
       [id |-> 3, item |-> "Garlic Bread", price |-> 499, category |-> "Side"],
       [id |-> 4, item |-> "Lemonade", price |-> 349, category |-> "Drink"],
       [id |-> 5, item |-> "Iced Tea", price |-> 349, category |-> "Drinks"] >>

\* the call finds the caller's session with a line in the cart
InitCategory ==
    \E m \in CategoryMessages, menu \in {SeedMenu, MixedCaseMenu, << >>} :
        /\ classify_intent(m) = "CATEGORY_QUERY"
        /\ menu_items = menu
        /\ orders = << >>
        /\ order_items = << >>
        /\ kb_entries = SeededEntries
        /\ kb_id_counter = Len(SeedEntries)
        /\ kb_history = SeededHistory
        /\ user_contexts = [v \in {"555"} |-> 1]
        /\ ctx_heap = << [NewContext(1) EXCEPT !.last_intent = "CATEGORY_QUERY"] >>
        /\ list_heap = << <<CartItem(SeedMenu[1], 1)>> >>
        /\ pc = [t \in Threads |-> IF t = 1 THEN "dispatch" ELSE "idle"]
        /\ loc = [t \in Threads |->
                    IF t = 1
                    THEN [IdleLoc EXCEPT !.message = m, !.user_id = "555",
                                         !.menu_data = menu, !.context = 1,
                                         !.intent = "CATEGORY_QUERY",
                                         !.pre = AllSessions]
                    ELSE IdleLoc]
        /\ nreq = 1
        /\ last_call = [user_id |-> None, message |-> "", intent |-> None,
                        cart_before |-> << >>, session |-> SessionOf(None)]

NextCategory == \E t \in Threads : handle_category_query(t)

SpecCategory == InitCategory /\ [][NextCategory]_vars

\* ---- process_message(message, user_id, menu_items, orders)

ProcessMessages ==
    Messages \cup LongMessages
        \cup {"", "track my order", "describe zzz", "what is gluten"}

\* the sessions a call can find: none, one with an empty cart, one with a
\* line in the cart
InitProcess ==
    \E m \in ProcessMessages, u \in UserIds, menu \in {SeedMenu, << >>},
       n \in 0..2, cart \in {0, 1, 2} :
        /\ menu_items = menu
        /\ orders = [i \in 1..n |-> OrderRow(i)]
        /\ order_items = << >>
        /\ kb_entries = SeededEntries
        /\ kb_id_counter = Len(SeedEntries)
        /\ kb_history = SeededHistory
        /\ user_contexts = IF cart = 0 THEN [v \in {} |-> 0] ELSE [v \in {u} |-> 1]
        /\ ctx_heap = IF cart = 0 THEN << >> ELSE << NewContext(1) >>
        /\ list_heap = CASE cart = 0 -> << >>
                         [] cart = 1 -> << << >> >>
                         [] cart = 2 -> << <<CartItem(SeedMenu[1], 1)>> >>
        /\ pc = [t \in Threads |-> IF t = 1 THEN "guc_check" ELSE "idle"]
        /\ loc = [t \in Threads |->
                    IF t = 1
                    THEN [IdleLoc EXCEPT !.message = m, !.user_id = u,
                                         !.menu_data = menu,
                                         !.orders_data = [i \in 1..n |-> OrderRow(i)],
                                         !.pre = AllSessions]
                    ELSE IdleLoc]
        /\ nreq = 1
        /\ last_call = [user_id |-> None, message |-> "", intent |-> None,
                        cart_before |-> << >>, session |-> SessionOf(None)]

\* the steps of process_message, from get_user_context to the return
NextProcess ==
    \E t \in Threads :
       \/ guc_check(t) \/ guc_create(t) \/ guc_return(t) \/ pm_classify(t)
       \/ handle_persona_query(t) \/ handle_greeting(t) \/ handle_menu_query(t)
       \/ handle_category_query(t) \/ handle_item_details(t)
       \/ handle_order_intent(t) \/ order_find(t) \/ order_incr_read(t)
       \/ order_incr_write(t) \/ order_append(t) \/ order_done(t)
       \/ handle_confirm_order(t) \/ confirm_build(t) \/ handle_cancel_order(t)
       \/ handle_track_order(t) \/ handle_kb_query(t) \/ handle_support(t)
       \/ handle_unknown(t)

SpecProcess == InitProcess /\ [][NextProcess]_vars

\* ---- chat() with orders in the table: the snapshot it hands over

\* the orders table holds the rows in the order of their creation
InitSnapshot ==
    \E n \in 0..MaxOrders :
        /\ menu_items = SeedMenu
        /\ orders = [i \in 1..n |-> OrderRow(i)]
        /\ order_items = << >>
        /\ kb_entries = SeededEntries
        /\ kb_id_counter = Len(SeedEntries)
        /\ kb_history = SeededHistory
        /\ user_contexts = [u \in {} |-> 0]
        /\ ctx_heap = << >>
        /\ list_heap = << >>
        /\ pc = [t \in Threads |-> "idle"]
        /\ loc = [t \in Threads |-> IdleLoc]
        /\ nreq = 0
        /\ last_call = [user_id |-> None, message |-> "", intent |-> None,
                        cart_before |-> << >>, session |-> SessionOf(None)]

\* requests that ask for an order, one at a time
NextSnapshot ==
    \E t \in Threads :
       \/ /\ \A o \in Threads : pc[o] = "idle" /\ t <= o
          /\ \E u \in RequestUserIds, m \in TrackMessages : chat_begin(t, u, m)
       \/ guc_check(t) \/ guc_create(t) \/ guc_return(t) \/ pm_classify(t)
       \/ handle_track_order(t) \/ chat_check_confirm(t) \/ chat_respond(t)

SpecSnapshot == InitSnapshot /\ [][NextSnapshot]_vars

\* ---- chat() after the menu has changed under a cart

\* the menu table after rows 1 and 3 were replaced: the ids are the same,
\* the prices differ, and row 3 has another name
RepricedMenu ==
    << [id |-> 1, item |-> "Margherita Pizza", price |-> 1599, category |-> "Pizza"],
       [id |-> 2, item |-> "Pepperoni Pizza", price |-> 1499, category |-> "Pizza"],
       [id |-> 3, item |-> "Cola Zero", price |-> 349, category |-> "Drink"] >>

RepricedMessages ==
    {"order cola", "order 2 cola and pepperoni", "confirm"}

\* the carts user 555 filled from the seeded menu before the change
CartsFromSeedMenu ==
    { << CartItem(SeedMenu[3], 1) >>,
      << CartItem(SeedMenu[1], 2), CartItem(SeedMenu[3], 1) >> }

InitRepriced ==
    \E menu \in {SeedMenu, RepricedMenu}, cart \in CartsFromSeedMenu :
        /\ menu_items = menu
        /\ orders = << >>
        /\ order_items = << >>
        /\ kb_entries = SeededEntries
        /\ kb_id_counter = Len(SeedEntries)
        /\ kb_history = SeededHistory
        /\ user_contexts = [v \in {"555"} |-> 1]
        /\ ctx_heap = << [NewContext(1) EXCEPT !.last_intent = "ORDER_INTENT"] >>
        /\ list_heap = << cart >>
        /\ pc = [t \in Threads |-> "idle"]
        /\ loc = [t \in Threads |-> IdleLoc]
        /\ nreq = 0
        /\ last_call = [user_id |-> None, message |-> "", intent |-> None,
                        cart_before |-> << >>, session |-> SessionOf(None)]

\* requests that order and confirm, one at a time
NextRepriced ==
    \E t \in Threads :
       \/ /\ \A o \in Threads : pc[o] = "idle" /\ t <= o
          /\ \E u \in RequestUserIds, m \in RepricedMessages : chat_begin(t, u, m)
       \/ guc_check(t) \/ guc_create(t) \/ guc_return(t) \/ pm_classify(t)
       \/ handle_order_intent(t) \/ order_find(t) \/ order_incr_read(t)
       \/ order_incr_write(t) \/ order_append(t) \/ order_done(t)
       \/ handle_confirm_order(t) \/ confirm_build(t)
       \/ chat_check_confirm(t) \/ persist_order(t) \/ persist_items(t)
       \/ clear_cart(t) \/ chat_respond(t) \/ chat_raise(t)

SpecRepriced == InitRepriced /\ [][NextRepriced]_vars

\* ---- GET /kb/search

SearchQueries ==
    { "", " ", "pizza", "PIZZA", "gluten", "refund", "who are you",
      "gluten pizza", "gluten  Gluten", "zzz" }

SearchCategories == {None, "", "persona", "faqs", "nutrition"}

SearchLimits == (0 - 2)..MaxLimit

InitSearch ==
    \E q \in SearchQueries, category \in SearchCategories, limit \in SearchLimits :
        CallState("search_kb",
                  [IdleLoc EXCEPT !.q = q, !.category = category, !.limit = limit])

\* the dict {**entry, "_score": score}
WithScore(entry, score) ==
    [k \in DOMAIN entry \cup {"_score"} |-> IF k = "_score" THEN score ELSE entry[k]]

\* a search that writes each score into the stored entry and returns the
\* stored entries as they are
search_kb_ScoresInPlace(t) ==
    /\ pc[t] = "search_kb"
    /\ LET query_lower == StrLower(loc[t].q)
           query_words == WordSet(StrSplit(query_lower))
           scored == ScoreLoop(kb_entries, query_lower, query_words, loc[t].category)
           top == SliceTo(SortByScore(scored), loc[t].limit)
       IN  /\ kb_entries' =
                 [i \in DOMAIN kb_entries |->
                     IF Score(kb_entries[i], query_lower, query_words) > 0
                     THEN WithScore(kb_entries[i],
                                    Score(kb_entries[i], query_lower, query_words))
                     ELSE kb_entries[i]]
           /\ Goto(t, "search_kb_return",
                   [loc[t] EXCEPT
                       !.results = [i \in DOMAIN top |->
                                       WithScore(top[i].entry, top[i].score)],
                       !.scored = scored])
    /\ db_unchanged /\ heap_unchanged
    /\ UNCHANGED << kb_id_counter, kb_history, nreq, last_call >>

\* return knowledge_base.search(q, category=category, limit=limit)
search_kb(t) ==
    /\ pc[t] = "search_kb"
    /\ Goto(t, "search_kb_return",
            [loc[t] EXCEPT
                !.results = search(kb_entries, loc[t].q, loc[t].category, loc[t].limit),
                \* the list search builds before it sorts, with each _score
                !.scored = ScoreLoop(kb_entries, StrLower(loc[t].q),
                                     WordSet(StrSplit(StrLower(loc[t].q))),
                                     loc[t].category)])
    /\ call_frame

NextSearch == \E t \in Threads : search_kb(t)

SpecSearch == InitSearch /\ [][NextSearch]_vars

\* ---- the knowledge store behind the /kb endpoints

\* calls of /kb endpoints started in one behaviour
MaxKbCalls == 3

\* Python's None where a list of tags is expected
NoTags == <<None>>

\* the calls made: the endpoint and its arguments
KbCalls ==
    LET Call(endpoint, entry_id, q, category, title, content, tags) ==
            [endpoint |-> endpoint, entry_id |-> entry_id, q |-> q,
             category |-> category, title |-> title, content |-> content,
             tags |-> tags]
    IN  { Call("create_kb_entry", 0, "", "faqs", "Gluten guide",
               "Ask for the gluten-free crust.", <<"gluten", "guide">>),
          Call("create_kb_entry", 0, "", "", "", "", NoTags) }
        \cup { Call("update_kb_entry", id, "", None, a[1], a[2], a[3]) :
                  id \in {1, 9},
                  a \in { <<None, None, NoTags>>,
                          <<"Allergens", None, NoTags>>,
                          <<None, "Ask the staff.", NoTags>>,
                          <<None, None, <<"allergy">> >>,
                          <<"Allergens", "Ask the staff.", <<"allergy">> >>,
                          <<"", "", << >> >> } }
        \cup { Call("delete_kb_entry", id, "", None, None, None, NoTags) :
                  id \in {1, 6, 9} }
        \cup { Call("get_kb_entry", id, "", None, None, None, NoTags) :
                  id \in {1, 9} }
        \cup { Call("get_kb_entries", 0, "", c, None, None, NoTags) :
                  c \in {None, "", "nutrition"} }
        \cup { Call("search_kb", 0, q, None, None, None, NoTags) :
                  q \in {"gluten", "guide"} }

\* the calls that run side by side: updates of one entry and reads of it
RaceKbCalls ==
    { call \in KbCalls :
         \/ /\ call.endpoint = "update_kb_entry"
            /\ call.entry_id = 1
            /\ call.title # None
            /\ call.content # ""
         \/ call.endpoint = "get_kb_entry" /\ call.entry_id = 1
         \/ call.endpoint = "get_kb_entries" /\ call.category = "nutrition"
         \/ call.endpoint = "search_kb" /\ call.q = "gluten" }

\* a request for one of the calls arrives at worker t
kb_begin(t, calls) ==
    /\ pc[t] = "idle"
    /\ nreq < MaxKbCalls
    /\ \E call \in calls :
          /\ Goto(t, call.endpoint,
                  [IdleLoc EXCEPT !.endpoint = call.endpoint,
                                  !.entry_id = call.entry_id, !.q = call.q,
                                  !.category = call.category, !.limit = 5,
                                  !.title = call.title, !.content = call.content,
                                  !.tags = call.tags,
                                  !.pre_kb = [entries |-> kb_entries,
                                              id_counter |-> kb_id_counter]])
    /\ nreq' = nreq + 1
    /\ db_unchanged /\ kb_unchanged /\ heap_unchanged
    /\ UNCHANGED last_call

\* the position of the first entry with the id, 0 when there is none
FindEntry(entries, entry_id) ==
    IF \E i \in DOMAIN entries : entries[i].id = entry_id
    THEN CHOOSE i \in DOMAIN entries :
            /\ entries[i].id = entry_id
            /\ \A j \in 1..(i - 1) : entries[j].id # entry_id
    ELSE 0

\* the history after add_entry has stored the entry
Assigned(history, entry) ==
    [history EXCEPT !.assigned = @ \cup {entry.id},
                    !.updates = [i \in DOMAIN @ \cup {entry.id} |->
                                    IF i \in DOMAIN @ THEN @[i] ELSE 0],
                    !.committed = @ \cup {entry}]

\* knowledge_base.add_entry(category, title, content, tags or [])
create_kb_entry(t) ==
    /\ pc[t] = "create_kb_entry"
    /\ LET tags == IF loc[t].tags \in {NoTags, << >>} THEN << >> ELSE loc[t].tags
           entry == NewEntry(kb_id_counter, loc[t].category, loc[t].title,
                             loc[t].content, tags)
       IN  /\ kb_id_counter' = kb_id_counter + 1
           /\ kb_entries' = Append(kb_entries, entry)
           /\ kb_history' = Assigned(kb_history, entry)
           /\ Goto(t, "kb_return",
                   [loc[t] EXCEPT !.returned = "entry", !.results = <<entry>>])
    /\ db_unchanged /\ heap_unchanged
    /\ UNCHANGED << nreq, last_call >>

\* update_entry looks for the entry; the return None when there is none
update_kb_entry(t) ==
    /\ pc[t] = "update_kb_entry"
    /\ LET i == FindEntry(kb_entries, loc[t].entry_id)
       IN  IF i = 0
           THEN Goto(t, "kb_return", [loc[t] EXCEPT !.returned = "None"])
           ELSE Goto(t, "update_title",
                     [loc[t] EXCEPT !.found = i, !.pre = kb_entries[i]])
    /\ db_unchanged /\ kb_unchanged /\ heap_unchanged
    /\ UNCHANGED << nreq, last_call >>

\* the three conditional assignments of update_entry, one statement a step
update_entry_set(t) ==
    /\ pc[t] \in {"update_title", "update_content", "update_tags"}
    /\ LET i == loc[t].found
       IN  kb_entries' =
              CASE pc[t] = "update_title" ->
                      IF loc[t].title \notin {None, ""}
                      THEN [kb_entries EXCEPT ![i].title = loc[t].title]
                      ELSE kb_entries
                [] pc[t] = "update_content" ->
                      IF loc[t].content \notin {None, ""}
                      THEN [kb_entries EXCEPT ![i].content = loc[t].content]
                      ELSE kb_entries
                [] pc[t] = "update_tags" ->
                      IF loc[t].tags \notin {NoTags, << >>}
                      THEN [kb_entries EXCEPT ![i].tags = loc[t].tags]
                      ELSE kb_entries
    /\ pc' = [pc EXCEPT ![t] = CASE pc[t] = "update_title" -> "update_content"
                                 [] pc[t] = "update_content" -> "update_tags"
                                 [] pc[t] = "update_tags" -> "update_version"]
    /\ db_unchanged /\ heap_unchanged
    /\ UNCHANGED << kb_id_counter, kb_history, loc, nreq, last_call >>

\* entry["version"] += 1 and the return of the entry
update_entry_version(t) ==
    /\ pc[t] = "update_version"
    /\ LET i == loc[t].found
       IN  /\ kb_entries' = [kb_entries EXCEPT ![i].version = @ + 1]
           /\ kb_history' = [kb_history EXCEPT
                                 !.updates[kb_entries[i].id] = @ + 1,
                                 !.committed = @ \cup {kb_entries'[i]}]
           /\ Goto(t, "kb_return",
                   [loc[t] EXCEPT !.returned = "entry",
                                  !.results = <<kb_entries'[i]>>])
    /\ db_unchanged /\ heap_unchanged
    /\ UNCHANGED << kb_id_counter, nreq, last_call >>

\* a pop that takes the last element whatever the position asked for
Pop_Last(xs, i) == SubSeq(xs, 1, Len(xs) - 1)

\* the list after list.pop(i), positions from 1
Pop(xs, i) == SubSeq(xs, 1, i - 1) \o SubSeq(xs, i + 1, Len(xs))

\* knowledge_base.delete_entry(entry_id)
delete_kb_entry(t) ==
    /\ pc[t] = "delete_kb_entry"
    /\ LET i == FindEntry(kb_entries, loc[t].entry_id)
       IN  IF i = 0
           THEN /\ Goto(t, "kb_return", [loc[t] EXCEPT !.returned = "False"])
                /\ kb_unchanged
           ELSE /\ kb_entries' = Pop(kb_entries, i)
                /\ kb_history' = [kb_history EXCEPT !.deleted = @ \cup {kb_entries[i].id}]
                /\ Goto(t, "kb_return", [loc[t] EXCEPT !.returned = "True"])
                /\ UNCHANGED kb_id_counter
    /\ db_unchanged /\ heap_unchanged
    /\ UNCHANGED << nreq, last_call >>

\* knowledge_base.get_by_id(entry_id)
get_kb_entry(t) ==
    /\ pc[t] = "get_kb_entry"
    /\ LET i == FindEntry(kb_entries, loc[t].entry_id)
       IN  IF i = 0
           THEN Goto(t, "kb_return", [loc[t] EXCEPT !.returned = "None"])
           ELSE Goto(t, "kb_return",
                     [loc[t] EXCEPT !.returned = "entry",
                                    !.results = <<kb_entries[i]>>])
    /\ call_frame

\* get_by_category(category) if category, else get_all()
get_kb_entries(t) ==
    /\ pc[t] = "get_kb_entries"
    /\ LET InCategory(e) == e.category = loc[t].category
       IN  Goto(t, "kb_return",
                [loc[t] EXCEPT !.returned = "list",
                               !.results = IF loc[t].category \notin {None, ""}
                                           THEN SelectSeq(kb_entries, InCategory)
                                           ELSE kb_entries])
    /\ call_frame

\* the response is sent, the worker is free again
kb_respond(t) ==
    /\ pc[t] \in {"kb_return", "search_kb_return"}
    /\ Goto(t, "idle", IdleLoc)
    /\ call_frame

\* the steps of update_entry
KbUpdate(t) ==
    \/ update_kb_entry(t)
    \/ update_entry_set(t)
    \/ update_entry_version(t)

\* the reads, and the end of every call
KbRead(t) ==
    \/ get_kb_entry(t)
    \/ get_kb_entries(t)
    \/ search_kb(t)
    \/ kb_respond(t)

\* one call at a time
NextKb ==
    \E t \in Threads :
       \/ (\A u \in Threads : pc[u] = "idle") /\ kb_begin(t, KbCalls)
       \/ create_kb_entry(t)
       \/ delete_kb_entry(t)
       \/ KbUpdate(t)
       \/ KbRead(t)

SpecKb == Init /\ [][NextKb]_vars

\* the workers of the thread pool run the endpoints side by side; the calls
\* that overlap are updates and reads, which leave every entry at its place
NextKbConc ==
    \E t \in Threads :
       \/ kb_begin(t, RaceKbCalls)
       \/ KbUpdate(t)
       \/ KbRead(t)

SpecKbConc == Init /\ [][NextKbConc]_vars

(***************************************************************************)
(* Properties                                                              *)
(***************************************************************************)

\* process_message has returned in thread t and chat() has not yet acted
Returned(t) == pc[t] = "pm_return"

\* the steps of chat() after process_message has returned
HostPhase == {"persist_order", "persist_items", "clear_cart", "respond", "failed"}

Caller(t) == loc[t].user_id

\* the caller's cart when the request arrived, and now
CartBefore(t) == loc[t].pre[Caller(t)].cart

CartNow(t) == SessionOf(Caller(t)).cart

NoDuplicateLines(cart) ==
    \A i, j \in DOMAIN cart : cart[i].menu_item_id = cart[j].menu_item_id => i = j

\* the sum of price * quantity over the first n lines
RECURSIVE SumOfLines(_, _)
SumOfLines(cart, n) ==
    IF n = 0 THEN 0 ELSE cart[n].price * cart[n].quantity + SumOfLines(cart, n - 1)

\* C1: with requests handled one at a time, no cart ever holds two lines with
\* the same menu_item_id; an ORDER_INTENT call that names an item already in
\* the cart adds the extracted quantity to that line, keeps the other lines in
\* place, and appends one line only for each named item that was not there.
C1_CartLinesUnique ==
    /\ \A u \in UserIds : NoDuplicateLines(SessionOf(u).cart)
    /\ \A t \in Threads :
          (Returned(t) /\ loc[t].action = "add_to_cart") =>
             LET cart_pre == CartBefore(t)
                 cart_post == CartNow(t)
                 named == {loc[t].found_items[i].id : i \in DOMAIN loc[t].found_items}
                 present == {cart_pre[k].menu_item_id : k \in DOMAIN cart_pre}
             IN  /\ Len(cart_post) = Len(cart_pre) + Cardinality(named \ present)
                 /\ \A k \in DOMAIN cart_pre :
                       cart_post[k] =
                          IF cart_pre[k].menu_item_id \in named
                          THEN [cart_pre[k] EXCEPT !.quantity = @ + loc[t].quantity]
                          ELSE cart_pre[k]

\* an ORDER_INTENT call has just added to a line that was already in the cart
C1_Witness ==
    \E t \in Threads :
       /\ Returned(t)
       /\ loc[t].action = "add_to_cart"
       /\ \E k \in DOMAIN CartBefore(t) :
             /\ \E i \in DOMAIN loc[t].found_items :
                   loc[t].found_items[i].id = CartBefore(t)[k].menu_item_id
             /\ CartNow(t)[k].quantity > CartBefore(t)[k].quantity

\* C2: every cart line of every session has quantity >= 1, and the quantity
\* an ORDER_INTENT call extracted from its message is >= 1.
C2_QuantityAtLeastOne ==
    /\ \A u \in UserIds :
          \A k \in DOMAIN SessionOf(u).cart : SessionOf(u).cart[k].quantity >= 1
    /\ \A t \in Threads :
          pc[t] \in {"order_find", "order_incr_read", "order_incr_write",
                     "order_append", "order_done"} => loc[t].quantity >= 1

\* the message of C3
WantMargherita == "I want a Margherita Pizza"

\* C3: when the message "I want a Margherita Pizza" has been handled twice in
\* a row for one user, the first time on an empty cart and with Margherita
\* Pizza in the menu snapshot, the user's cart is exactly one Margherita Pizza
\* line with quantity 2.
C3_SameItemTwice ==
    \A t \in Threads :
       ( /\ Returned(t)
         /\ loc[t].message = WantMargherita
         /\ \E i \in DOMAIN loc[t].menu_data : loc[t].menu_data[i].item = "Margherita Pizza"
         /\ last_call.user_id = Caller(t)
         /\ last_call.message = WantMargherita
         /\ last_call.cart_before = << >>
         /\ last_call.session = loc[t].pre[Caller(t)] )
       => /\ Len(CartNow(t)) = 1
          /\ CartNow(t)[1].item = "Margherita Pizza"
          /\ CartNow(t)[1].quantity = 2

\* the action process_message returns, computed from the message, the
\* snapshots, the knowledge base and the caller's own session alone
OwnAction(t) ==
    LET intent == CallClassify(loc[t].message)
        found == CallExtractMenuItems(loc[t].message, loc[t].menu_data)
    IN  CASE intent = "PERSONA_QUERY" -> "persona_response"
          [] intent = "MENU_QUERY" -> "show_menu"
          [] intent = "CATEGORY_QUERY" -> "show_category"
          [] intent = "ITEM_DETAILS" -> IF found # << >> THEN "show_item" ELSE None
          [] intent = "ORDER_INTENT" -> IF found # << >> THEN "add_to_cart" ELSE None
          [] intent = "CONFIRM_ORDER" ->
                IF CartBefore(t) # << >> THEN "confirm_order" ELSE None
          [] intent = "CANCEL_ORDER" ->
                IF CartBefore(t) # << >> THEN "clear_cart" ELSE None
          [] intent = "TRACK_ORDER" ->
                IF /\ loc[t].orders_data # << >>
                   /\ TargetOrder(loc[t].message, Caller(t), loc[t].orders_data) # 0
                THEN "show_order_status" ELSE None
          [] intent = "KB_QUERY" ->
                IF CallSearchKb(kb_entries, loc[t].message) # << >>
                THEN "kb_response" ELSE "kb_fallback"
          [] intent = "SUPPORT" -> "support"
          [] OTHER -> None

\* C4: a process_message call for user u leaves the session of every other
\* user v as it was (cart, last_intent, pending_order, order_history), and
\* what it returns is fixed by the message, the snapshots and u's own session:
\* the action is the one computed from u's own cart, and a cart it returns is
\* u's own cart list.
C4_OtherSessionsUntouched ==
    \A t \in Threads :
       Returned(t) =>
          /\ \A v \in UserIds \ {Caller(t)} : SessionOf(v) = loc[t].pre[v]
          /\ loc[t].action = OwnAction(t)
          /\ loc[t].data.kind \in {"cart", "confirm"} =>
                loc[t].data.cart = ctx_heap[user_contexts[Caller(t)]].cart

\* a call that changed the caller's cart has returned while another user
\* holds a session with a cart of their own
C4_Witness ==
    \E t \in Threads :
       /\ Returned(t)
       /\ loc[t].action = "add_to_cart"
       /\ \E v \in UserIds \ {Caller(t)} :
             /\ SessionOf(v).exists
             /\ SessionOf(v).cart # << >>
             /\ SessionOf(v).cart # CartNow(t)

\* C5: when calls for one user overlap, the read-modify-write steps on the
\* cart do not interleave: a quantity is stored back into a line that still
\* holds the value read, a line is appended only while the cart still has no
\* line for the item, and so no cart holds two lines with the same
\* menu_item_id.
C5_CartUpdatesDoNotInterleave ==
    /\ \A u \in UserIds : NoDuplicateLines(SessionOf(u).cart)
    /\ \A t \in Threads :
          /\ pc[t] = "order_incr_write" =>
                list_heap[loc[t].existing_list][loc[t].existing].quantity = loc[t].tmp
          /\ pc[t] = "order_append" =>
                FindExisting(list_heap[ctx_heap[loc[t].context].cart],
                             loc[t].found_items[loc[t].idx].id) = 0

\* C6: a CONFIRM_ORDER call on a non-empty cart returns action
\* "confirm_order", data.total equal to the sum of price * quantity over the
\* cart lines, data.requires_details true and data.cart equal to the cart, and
\* the session cart is what it was before the call.
C6_ConfirmNonEmptyCart ==
    \A t \in Threads :
       (Returned(t) /\ loc[t].intent = "CONFIRM_ORDER" /\ CartBefore(t) # << >>) =>
          /\ loc[t].action = "confirm_order"
          /\ loc[t].data.kind = "confirm"
          /\ loc[t].data.total = SumOfLines(CartBefore(t), Len(CartBefore(t)))
          /\ loc[t].data.requires_details = TRUE
          /\ list_heap[loc[t].data.cart] = CartBefore(t)
          /\ CartNow(t) = CartBefore(t)

\* a confirmation has returned for a cart of two lines, one of quantity 2
C6_Witness ==
    \E t \in Threads :
       /\ Returned(t)
       /\ loc[t].intent = "CONFIRM_ORDER"
       /\ Len(CartBefore(t)) >= 2
       /\ \E k \in DOMAIN CartBefore(t) : CartBefore(t)[k].quantity >= 2

\* C7: a CONFIRM_ORDER call on an empty cart returns no action and no data and
\* leaves the cart empty, and chat() then goes straight to its response: it
\* takes no persistence step and the orders and order items stay as they were.
C7_ConfirmEmptyCart ==
    \A t \in Threads :
       ( /\ pc[t] \in {"pm_return"} \cup HostPhase
         /\ loc[t].intent = "CONFIRM_ORDER"
         /\ CartBefore(t) = << >> )
       => /\ loc[t].action = None
          /\ loc[t].data = NoData
          /\ loc[t].total = 0
          /\ CartNow(t) = << >>
          /\ pc[t] \in {"pm_return", "respond"}
          /\ orders = loc[t].pre_orders
          /\ order_items = loc[t].pre_order_items

\* chat() is about to answer a confirmation that found the cart empty
C7_Witness ==
    \E t \in Threads :
       /\ pc[t] = "respond"
       /\ loc[t].intent = "CONFIRM_ORDER"
       /\ CartBefore(t) = << >>
       /\ loc[t].response = "cart_is_empty"

\* C8: a CANCEL_ORDER call leaves the cart empty; on a non-empty cart it
\* returns action "clear_cart", on an empty cart it returns action None with
\* a different response.
C8_CancelEmptiesCart ==
    \A t \in Threads :
       (Returned(t) /\ loc[t].intent = "CANCEL_ORDER") =>
          /\ CartNow(t) = << >>
          /\ IF CartBefore(t) # << >>
             THEN loc[t].action = "clear_cart" /\ loc[t].response = "cart_cleared"
             ELSE loc[t].action = None /\ loc[t].response = "nothing_to_cancel"

\* a cancellation has returned for a cart that held a line
C8_Witness ==
    \E t \in Threads :
       /\ Returned(t)
       /\ loc[t].intent = "CANCEL_ORDER"
       /\ CartBefore(t) # << >>
       /\ CartNow(t) = << >>

\* C9: while chat() handles a confirm outcome, the caller's cart differs from
\* the cart process_message returned only once the order row and every item
\* row of that cart are committed; when a commit has raised, the cart is
\* exactly the cart process_message returned.
C9_CartClearedAfterCommit ==
    \A t \in Threads :
       pc[t] \in HostPhase =>
          LET cart_at_return == loc[t].at_return[Caller(t)].cart
          IN  /\ pc[t] = "failed" => CartNow(t) = cart_at_return /\ CartNow(t) # << >>
              /\ CartNow(t) # cart_at_return =>
                    /\ CartNow(t) = << >>
                    /\ Len(orders) = Len(loc[t].pre_orders) + 1
                    /\ orders[Len(orders)].id = loc[t].db_order_id
                    /\ orders[Len(orders)].total_amount =
                          SumOfLines(cart_at_return, Len(cart_at_return))
                    /\ order_items =
                          loc[t].pre_order_items
                             \o OrderItemRows(loc[t].db_order_id, cart_at_return)

\* the commit of the item rows has raised after the order row was committed
C9_Witness ==
    \E t \in Threads :
       /\ pc[t] = "failed"
       /\ loc[t].db_order_id # 0
       /\ Len(CartNow(t)) >= 1

\* C10: a call classified UNKNOWN does not change the caller's cart, and when
\* the call before it was classified UNKNOWN and made for the same user, the
\* session after it (cart, last_intent, pending_order, order_history) is the
\* session after that earlier call.
C10_UnknownTwice ==
    \A t \in Threads :
       (Returned(t) /\ loc[t].intent = "UNKNOWN") =>
          /\ CartNow(t) = CartBefore(t)
          /\ (last_call.user_id = Caller(t) /\ last_call.intent = "UNKNOWN") =>
                SessionOf(Caller(t)) = last_call.session

\* the second of two UNKNOWN calls for a user with a line in the cart has
\* returned
C10_Witness ==
    \E t \in Threads :
       /\ Returned(t)
       /\ loc[t].intent = "UNKNOWN"
       /\ last_call.user_id = Caller(t)
       /\ last_call.intent = "UNKNOWN"
       /\ CartNow(t) # << >>

\* the intents in the order INTENT_PATTERNS declares them
DeclaredOrder ==
    << "GREETING", "MENU_QUERY", "CATEGORY_QUERY", "ITEM_DETAILS", "TRACK_ORDER",
       "CONFIRM_ORDER", "CANCEL_ORDER", "ORDER_INTENT", "SUPPORT", "PERSONA_QUERY",
       "KB_QUERY" >>

\* the table rows a pattern of which matches the lower-cased, trimmed message
MatchingRows(message) ==
    {n \in DOMAIN INTENT_PATTERNS : RowMatches(n, StrStrip(StrLower(message)))}

\* the table row of an intent
RowOf(intent) == CHOOSE n \in DOMAIN INTENT_PATTERNS : INTENT_PATTERNS[n].intent = intent

\* C11: classify_intent returns the first intent, in the declared order
\* GREETING .. KB_QUERY, one of whose patterns matches the lower-cased,
\* trimmed message, and returns UNKNOWN exactly when no row matches.
C11_FirstMatchingIntent ==
    \A t \in Threads :
       pc[t] = "called_classify_intent" =>
          LET matching == MatchingRows(loc[t].message)
          IN  /\ DOMAIN INTENT_PATTERNS = DOMAIN DeclaredOrder
              /\ \A n \in DOMAIN DeclaredOrder : INTENT_PATTERNS[n].intent = DeclaredOrder[n]
              /\ \A n \in matching :
                    (\A m \in matching : n <= m) => loc[t].intent = DeclaredOrder[n]
              /\ (loc[t].intent = "UNKNOWN") <=> (matching = {})

\* a message that matches the rows of two intents has been classified
C11_Witness ==
    \E t \in Threads :
       /\ pc[t] = "called_classify_intent"
       /\ Cardinality(MatchingRows(loc[t].message)) >= 2
       /\ loc[t].intent # "UNKNOWN"

\* C12: a message that matches a TRACK_ORDER pattern is never classified
\* ORDER_INTENT, also when it matches an ORDER_INTENT pattern; a message that
\* matches an ORDER_INTENT pattern and no TRACK_ORDER pattern is never
\* classified TRACK_ORDER.
C12_TrackBeforeOrder ==
    \A t \in Threads :
       pc[t] = "called_classify_intent" =>
          LET matching == MatchingRows(loc[t].message)
              track == RowOf("TRACK_ORDER") \in matching
              order == RowOf("ORDER_INTENT") \in matching
          IN  /\ track => loc[t].intent # "ORDER_INTENT"
              /\ (order /\ ~track) => loc[t].intent # "TRACK_ORDER"

\* "where is my order", which matches patterns of both intents, has been
\* classified
C12_Witness ==
    \E t \in Threads :
       /\ pc[t] = "called_classify_intent"
       /\ loc[t].message = "where is my order"
       /\ RowOf("TRACK_ORDER") \in MatchingRows(loc[t].message)
       /\ RowOf("ORDER_INTENT") \in MatchingRows(loc[t].message)
       /\ loc[t].intent = "TRACK_ORDER"

\* the number words; the value of a word is its position
NumberWordsInOrder ==
    << "one", "two", "three", "four", "five", "six", "seven", "eight", "nine", "ten" >>

\* the number words that occur in the lower-cased message, as their values
NumbersNamed(message) ==
    {n \in DOMAIN NumberWordsInOrder : Contains(NumberWordsInOrder[n], StrLower(message))}

\* C13: extract_quantity returns the value of the first number word, in the
\* order "one".."ten", that occurs in the lower-cased message; without a
\* number word, the value of the first run of decimal digits; without either,
\* 1. It gives 2 for "two pepperoni pizzas", 1 for "pizza", 5 for "order 5".
C13_QuantityExtraction ==
    \A t \in Threads :
       pc[t] = "called_extract_quantity" =>
          LET named == NumbersNamed(loc[t].message)
              digits == FirstDigits(loc[t].message)
          IN  /\ loc[t].quantity =
                    IF named # {} THEN CHOOSE n \in named : \A m \in named : n <= m
                    ELSE IF digits # "" THEN ParseInt(digits, 0)
                    ELSE 1
              /\ loc[t].message = "two pepperoni pizzas" => loc[t].quantity = 2
              /\ loc[t].message = "pizza" => loc[t].quantity = 1
              /\ loc[t].message = "order 5" => loc[t].quantity = 5

\* a message that holds digits ahead of a number word of another value has
\* been handled
C13_Witness ==
    \E t \in Threads :
       /\ pc[t] = "called_extract_quantity"
       /\ loc[t].message = "5 two"
       /\ loc[t].quantity = 2

\* the words of a catalog name
NameWords(entry) == StrSplit(StrLower(entry.item))

\* the four checks of C14 on the normalized message
FullNameIn(entry, text) == Contains(StrLower(entry.item), text)

FirstWordIn(entry, text) ==
    /\ Len(NameWords(entry)) >= 1
    /\ Len(NameWords(entry)[1]) > 3
    /\ Contains(NameWords(entry)[1], text)

SomeWordIn(entry, text) ==
    \E w \in DOMAIN NameWords(entry) :
        Len(NameWords(entry)[w]) > 3 /\ Contains(NameWords(entry)[w], text)

FirstTwoWordsIn(entry, text) ==
    /\ Len(NameWords(entry)) >= 2
    /\ Contains(NameWords(entry)[1] \o " " \o NameWords(entry)[2], text)

\* the positions of the catalog entries for which one of the checks holds
Mentioned(catalog, text) ==
    {i \in DOMAIN catalog :
        \/ FullNameIn(catalog[i], text) \/ FirstWordIn(catalog[i], text)
        \/ SomeWordIn(catalog[i], text) \/ FirstTwoWordsIn(catalog[i], text)}

TrackReturned(t) == pc[t] = "pm_return" /\ loc[t].intent = "TRACK_ORDER"

\* the positions in the snapshot of the orders with id n
WithId(snapshot, n) == {i \in DOMAIN snapshot : snapshot[i].id = n}

\* the positions of the orders whose customer_phone is the user id
WithPhone(snapshot, user_id) ==
    {i \in DOMAIN snapshot : snapshot[i].customer_phone = user_id}

\* C15: for a TRACK_ORDER message whose first digit run is n and a snapshot
\* that holds an order with id n, process_message returns action
\* "show_order_status" and that order, wherever it stands in the snapshot and
\* whoever the caller is.
C15_TrackById ==
    \A t \in Threads :
       TrackReturned(t) =>
          LET digits == FirstDigits(loc[t].message)
              hits == IF digits = "" THEN {}
                      ELSE WithId(loc[t].orders_data, ParseInt(digits, 0))
          IN  hits # {} =>
                 /\ loc[t].action = "show_order_status"
                 /\ loc[t].data.kind = "order"
                 /\ \E i \in hits : loc[t].data.order = loc[t].orders_data[i]

\* order 3 has been found behind other orders for a caller who has no order
C15_Witness ==
    \E t \in Threads :
       /\ TrackReturned(t)
       /\ loc[t].message = "track order #3"
       /\ loc[t].user_id = "anonymous"
       /\ Len(loc[t].orders_data) >= 3
       /\ loc[t].orders_data[2].id = 3
       /\ loc[t].action = "show_order_status"
       /\ loc[t].data.order.id = 3

\* the snapshot is sorted by creation time, newest first
NewestFirst(snapshot) ==
    \A i, j \in DOMAIN snapshot :
        i < j => snapshot[i].created_at >= snapshot[j].created_at

\* C16: for a TRACK_ORDER message without an order identifier and a snapshot
\* sorted newest first that holds orders with the caller's user id as phone,
\* process_message returns the one of them that was created last.
C16_TrackLatestOfCaller ==
    \A t \in Threads :
       TrackReturned(t) =>
          LET snapshot == loc[t].orders_data
              mine == WithPhone(snapshot, loc[t].user_id)
          IN  (FirstDigits(loc[t].message) = "" /\ NewestFirst(snapshot) /\ mine # {}) =>
                 /\ loc[t].action = "show_order_status"
                 /\ loc[t].data.kind = "order"
                 /\ \E i \in mine :
                       /\ \A j \in mine : snapshot[i].created_at >= snapshot[j].created_at
                       /\ loc[t].data.order = snapshot[i]

\* C17: for a TRACK_ORDER message without an order identifier, a non-empty
\* snapshot without an order of the caller's phone gives the first record of
\* the snapshot, and an empty snapshot gives the guidance outcome with action
\* None and data None.
C17_TrackFallback ==
    \A t \in Threads :
       TrackReturned(t) =>
          LET snapshot == loc[t].orders_data
          IN  /\ ( /\ FirstDigits(loc[t].message) = ""
                   /\ snapshot # << >>
                   /\ WithPhone(snapshot, loc[t].user_id) = {} )
                 => /\ loc[t].action = "show_order_status"
                    /\ loc[t].data.kind = "order"
                    /\ loc[t].data.order = snapshot[1]
              /\ snapshot = << >> =>
                    /\ loc[t].action = None
                    /\ loc[t].data = NoData
                    /\ loc[t].response = "no_orders_yet"

\* search has returned in thread t
SearchReturned(t) == pc[t] = "search_kb_return"

\* the relevance score of an entry for the query of thread t
ScoreFor(t, entry) ==
    Score(entry, StrLower(loc[t].q), WordSet(StrSplit(StrLower(loc[t].q))))

\* the position of an entry in the store
PositionOf(entry) == CHOOSE i \in DOMAIN kb_entries : kb_entries[i] = entry

\* the entries of the store that pass the category filter of thread t with a
\* score above 0
Candidates(t) ==
    {kb_entries[i] : i \in
        {j \in DOMAIN kb_entries :
            /\ loc[t].category \in {None, ""} \/ kb_entries[j].category = loc[t].category
            /\ ScoreFor(t, kb_entries[j]) > 0}}

\* a comes ahead of b: higher score, or equal score and earlier in the store
Ahead(t, a, b) ==
    \/ ScoreFor(t, a) > ScoreFor(t, b)
    \/ ScoreFor(t, a) = ScoreFor(t, b) /\ PositionOf(a) < PositionOf(b)

\* C18: for every query, category and integer limit, search returns at most
\* limit entries, each with a relevance score above 0.
C18_AtMostLimit ==
    \A t \in Threads :
       SearchReturned(t) =>
          /\ Len(loc[t].results) <= loc[t].limit
          /\ \A i \in DOMAIN loc[t].results : ScoreFor(t, loc[t].results[i]) > 0

\* C19: the entries search returns are in order of non-increasing score,
\* entries of equal score in their order in the store, and they are the
\* first limit entries of the candidates in that order (all of them when
\* there are fewer).
C19_RankedPrefix ==
    \A t \in Threads :
       SearchReturned(t) =>
          LET results == loc[t].results
              returned == {results[i] : i \in DOMAIN results}
              wanted == IF loc[t].limit < 0 THEN 0
                        ELSE IF loc[t].limit < Cardinality(Candidates(t))
                             THEN loc[t].limit
                             ELSE Cardinality(Candidates(t))
          IN  /\ \A i, j \in DOMAIN results : i < j => Ahead(t, results[i], results[j])
              /\ returned \subseteq Candidates(t)
              /\ \A a \in returned : \A b \in Candidates(t) \ returned : Ahead(t, a, b)
              /\ Len(results) = wanted

\* C20: a query that is empty once trimmed gives every entry score 0, and
\* search returns the empty list for it, whatever the category and limit.
C20_EmptyQuery ==
    \A t \in Threads :
       (SearchReturned(t) /\ StrStrip(loc[t].q) = "") =>
          /\ \A i \in DOMAIN kb_entries : ScoreFor(t, kb_entries[i]) = 0
          /\ loc[t].results = << >>

\* the number of the words that satisfy the test
HowMany(words, Test(_)) == Cardinality({w \in words : Test(w)})

C22_CategoryFilter ==
    \A t \in Threads :
       (SearchReturned(t) /\ loc[t].category # None) =>
          /\ \A i \in DOMAIN loc[t].results :
                loc[t].results[i].category = loc[t].category
          /\ \A i \in DOMAIN loc[t].scored :
                loc[t].scored[i].entry.category = loc[t].category

\* the entry says gluten in a tag, its title or its content
MentionsGluten(entry) ==
    \/ Contains("gluten", StrLower(entry.title))
    \/ Contains("gluten", StrLower(entry.content))
    \/ \E k \in DOMAIN entry.tags : Contains("gluten", StrLower(entry.tags[k]))

\* C23: over the seeded corpus, search("gluten") with no category returns
\* the entry titled "Allergen Information" first, ahead of every other entry
\* that mentions gluten in a tag, its title or its content.
C23_GlutenFirst ==
    \A t \in Threads :
       (/\ SearchReturned(t)
        /\ loc[t].q = "gluten" /\ loc[t].category = None /\ loc[t].limit >= 1) =>
          LET results == loc[t].results
          IN  /\ Len(results) >= 1
              /\ results[1].title = "Allergen Information"
              /\ \A i \in DOMAIN results :
                    (i > 1) => results[i].title # "Allergen Information"
              /\ \A j \in DOMAIN kb_entries :
                    (/\ MentionsGluten(kb_entries[j])
                     /\ kb_entries[j].title # "Allergen Information") =>
                       \A i \in DOMAIN results : results[i] = kb_entries[j] => i > 1

\* search("gluten") has returned every entry that mentions gluten, three of
\* them, two with the score of the first
C23_Witness ==
    \E t \in Threads :
       /\ SearchReturned(t)
       /\ loc[t].q = "gluten" /\ loc[t].category = None
       /\ Len(loc[t].results) = 3
       /\ \A j \in DOMAIN kb_entries :
             MentionsGluten(kb_entries[j]) =>
                \E i \in DOMAIN loc[t].results : loc[t].results[i] = kb_entries[j]
       /\ \E i, k \in DOMAIN loc[t].scored :
             i # k /\ loc[t].scored[i].score = loc[t].scored[k].score

\* the call of the endpoint by worker t has returned
KbReturned(t, endpoint) ==
    /\ pc[t] \in {"kb_return", "search_kb_return"}
    /\ loc[t].endpoint = endpoint

\* the ids of the entries of a list
IdsOf(entries) == {entries[i].id : i \in DOMAIN entries}

\* C24: after any sequence of add_entry, update_entry and delete_entry calls
\* the stored entries have pairwise distinct ids, each newly added entry has
\* an id greater than every id assigned before it, and the id of a deleted
\* entry is never assigned to a later entry.
C24_IdsNeverReused ==
    /\ \A i, j \in DOMAIN kb_entries :
          i # j => kb_entries[i].id # kb_entries[j].id
    /\ IdsOf(kb_entries) \cap kb_history.deleted = {}
    /\ \A t \in Threads :
          KbReturned(t, "create_kb_entry") =>
             LET entry == loc[t].results[1]
             IN  /\ \A id \in kb_history.assigned \ {entry.id} : id < entry.id
                 /\ \A id \in IdsOf(loc[t].pre_kb.entries) : id < entry.id
                 /\ entry.id \notin kb_history.deleted
                 /\ entry.id \in IdsOf(kb_entries)

\* an entry has been added after others were deleted and updated
C24_Witness ==
    \E t \in Threads :
       /\ KbReturned(t, "create_kb_entry")
       /\ kb_history.deleted # {}
       /\ \E id \in kb_history.assigned : kb_history.updates[id] > 0

\* C25: update_entry on an existing id overwrites each of title, content and
\* tags for which the caller supplies a value (any value, the empty string
\* and the empty list included), leaves the fields not supplied, the id and
\* the category as they were, and raises the version by exactly 1, so that
\* the version is 1 plus the number of successful updates of the entry.
C25_UpdateOverwritesSupplied ==
    \A t \in Threads :
       (KbReturned(t, "update_kb_entry") /\ loc[t].returned = "entry") =>
          LET before == loc[t].pre
              after == kb_entries[loc[t].found]
          IN  /\ after.title = IF loc[t].title # None THEN loc[t].title ELSE before.title
              /\ after.content = IF loc[t].content # None THEN loc[t].content
                                 ELSE before.content
              /\ after.tags = IF loc[t].tags # NoTags THEN loc[t].tags ELSE before.tags
              /\ after.id = before.id
              /\ after.category = before.category
              /\ after.version = before.version + 1
              /\ after.version = 1 + kb_history.updates[after.id]
              /\ loc[t].results = <<after>>

\* C26: delete_entry on an existing id removes exactly that entry, keeps the
\* others in their order and returns True, and no read returns the entry
\* afterwards; delete_entry and update_entry on an id that is not in the
\* store return False and None and leave the store and the id counter as
\* they were.
C26_DeleteAndMissingIds ==
    \A t \in Threads :
       LET before == loc[t].pre_kb.entries
           Kept(e) == e.id # loc[t].entry_id
           present == loc[t].entry_id \in IdsOf(before)
           untouched == /\ kb_entries = before
                        /\ kb_id_counter = loc[t].pre_kb.id_counter
       IN  /\ KbReturned(t, "delete_kb_entry") =>
                IF present
                THEN /\ loc[t].returned = "True"
                     /\ kb_entries = SelectSeq(before, Kept)
                     /\ Len(kb_entries) = Len(before) - 1
                ELSE loc[t].returned = "False" /\ untouched
           /\ (KbReturned(t, "update_kb_entry") /\ ~present) =>
                loc[t].returned = "None" /\ untouched
           /\ \A read \in {"get_kb_entry", "get_kb_entries", "search_kb"} :
                KbReturned(t, read) =>
                   IdsOf(loc[t].results) \cap kb_history.deleted = {}

\* a search that matched the deleted entry before has returned without it
C26_Witness ==
    \E t \in Threads :
       /\ KbReturned(t, "search_kb")
       /\ loc[t].q = "gluten"
       /\ 1 \in kb_history.deleted
       /\ loc[t].results # << >>

\* C27: a read of the knowledge store that runs while update_entry is at
\* work never returns a partially-updated entry, one that carries some but
\* not all of the changes of that update: every entry a read returns is an
\* entry as add_entry or a completed update_entry left it.
C27_ReadsSeeWholeUpdates ==
    \A t \in Threads :
       \A read \in {"get_kb_entry", "get_kb_entries", "search_kb"} :
          KbReturned(t, read) =>
             \A i \in DOMAIN loc[t].results :
                loc[t].results[i] \in kb_history.committed

\* C28: for every message, user id, menu snapshot with id, item, price and
\* category in its records, and order snapshot (absent, empty or well
\* formed), process_message raises nothing and returns response, action and
\* data; "not found", "empty cart" and unrecognized intents are ordinary
\* results.
C28_ProcessMessageTotal ==
    \A t \in Threads :
       /\ pc[t] # "pm_raised"
       /\ Returned(t) =>
             /\ loc[t].response # ""
             /\ loc[t].action \in {None, "persona_response", "show_menu",
                                   "show_category", "show_item", "add_to_cart",
                                   "confirm_order", "clear_cart",
                                   "show_order_status", "kb_response",
                                   "kb_fallback", "support"}
             /\ loc[t].data.kind \in {"None", "items", "category", "item", "cart",
                                      "confirm", "order", "entries"}

\* C29: at most one session exists per user id, also when the first requests
\* of a new user arrive together: every call works on the session object
\* that is registered in the session map, and a session, once created, is
\* never replaced.
C29_OneSessionPerUser ==
    /\ Len(ctx_heap) = Cardinality(DOMAIN user_contexts)
    /\ \A t \in Threads :
          (pc[t] \notin {"idle", "guc_check", "guc_create", "guc_return"}
              /\ loc[t].context # 0) =>
             loc[t].context = user_contexts[loc[t].user_id]

\* C30: the order snapshot chat() passes to process_message is sorted by
\* creation time, newest first, so that the first record, which the
\* TRACK_ORDER fallback selects, is the order created last of all.
C30_SnapshotNewestFirst ==
    \A t \in Threads :
       /\ pc[t] # "idle" => NewestFirst(loc[t].orders_data)
       /\ ( /\ TrackReturned(t)
            /\ FirstDigits(loc[t].message) = ""
            /\ loc[t].orders_data # << >>
            /\ \A i \in DOMAIN loc[t].orders_data :
                  Str(loc[t].orders_data[i].customer_phone) # loc[t].user_id )
          => /\ loc[t].data.kind = "order"
             /\ \A i \in DOMAIN orders :
                   loc[t].data.order.created_at >= orders[i].created_at

\* thread t handles an ORDER_INTENT message in which extract_menu_items
\* finds no item of the menu snapshot
OrderWithoutItem(t) ==
    /\ pc[t] \in {"pm_return", "pm_raised"}
    /\ loc[t].intent = "ORDER_INTENT"
    /\ loc[t].found_items = << >>

\* C31: an ORDER_INTENT message from which extract_menu_items finds no
\* catalog item gets the prompt for clarification, with action None and data
\* None, and the caller's cart stays as it was, whatever quantity the
\* message contains.
C31_OrderWithoutItem ==
    \A t \in Threads :
       OrderWithoutItem(t) =>
          /\ Returned(t)
          /\ loc[t].response = "ask_which_item"
          /\ loc[t].action = None
          /\ loc[t].data = NoData
          /\ CartNow(t) = CartBefore(t)

\* the keywords that occur in the lower-cased message of thread t, by their
\* position in the fixed list
KeywordsIn(t) ==
    {n \in DOMAIN CategoryKeywords : Contains(CategoryKeywords[n], StrLower(loc[t].message))}

\* C32: for a CATEGORY_QUERY message the category is the first keyword of
\* the list pizza, drink, dessert, side, appetizer, beverage that occurs in
\* the lower-cased message, in list order and not in order of appearance;
\* the menu shown holds exactly the items whose category equals it without
\* regard to case; with no keyword the category is None and the full menu
\* is shown; the cart is unchanged.
C32_CategoryByListOrder ==
    \A t \in Threads :
       (Returned(t) /\ loc[t].intent = "CATEGORY_QUERY") =>
          /\ loc[t].action = "show_category"
          /\ loc[t].data.kind = "category"
          /\ CartNow(t) = CartBefore(t)
          /\ IF KeywordsIn(t) = {}
             THEN /\ loc[t].data.category = None
                  /\ loc[t].shown = loc[t].menu_data
             ELSE \E n \in KeywordsIn(t) :
                     /\ \A m \in KeywordsIn(t) : n <= m
                     /\ StrLower(loc[t].data.category) = CategoryKeywords[n]
                     /\ loc[t].shown =
                           SelectSeq(loc[t].menu_data,
                                     LAMBDA i : StrLower(i.category) = CategoryKeywords[n])

\* a message that mentions drinks before pizza has been answered with the
\* pizzas of the menu alone
C32_Witness ==
    \E t \in Threads :
       /\ Returned(t)
       /\ loc[t].intent = "CATEGORY_QUERY"
       /\ loc[t].message = "drinks pizza"
       /\ loc[t].data.category = "Pizza"
       /\ Len(loc[t].shown) = 1
       /\ loc[t].shown[1].category = "PIZZA"
       /\ CartBefore(t) # << >>

\* thread t is in process_message past line 219: in a handler, at the return
\* or at an exception
PastClassify(t) ==
    pc[t] \in {"dispatch", "order_find", "order_incr_read", "order_incr_write",
               "order_append", "order_done", "confirm_build", "pm_return",
               "pm_raised"}

\* C33: from the moment the intent handler starts until the call has
\* returned, the caller's session holds as last_intent the intent
\* classify_intent gives the message of the call, for every intent, UNKNOWN
\* and the branches without an action included.
C33_LastIntentRecorded ==
    \A t \in Threads :
       PastClassify(t) =>
          /\ loc[t].intent = CallClassify(loc[t].message)
          /\ SessionOf(Caller(t)).last_intent = CallClassify(loc[t].message)

\* a call with an unrecognized message has returned without an action for a
\* user whose session held another intent before
C33_Witness ==
    \E t \in Threads :
       /\ Returned(t)
       /\ loc[t].intent = "UNKNOWN"
       /\ loc[t].action = None
       /\ loc[t].pre[Caller(t)].last_intent \notin {None, "UNKNOWN"}
       /\ SessionOf(Caller(t)).last_intent = "UNKNOWN"

\* the entry carries the field search adds to its working copies
CarriesScore(entry) == "_score" \in DOMAIN entry

\* C34: search never changes the knowledge store: when a search returns,
\* the entry list, its order, every field of every stored entry and the id
\* counter are as they were when the call began; no stored entry ever
\* carries the _score field, and no returned entry has it.
C34_SearchLeavesStore ==
    /\ \A i \in DOMAIN kb_entries : ~CarriesScore(kb_entries[i])
    /\ \A t \in Threads :
          KbReturned(t, "search_kb") =>
             /\ kb_entries = loc[t].pre_kb.entries
             /\ kb_id_counter = loc[t].pre_kb.id_counter
             /\ \A i \in DOMAIN loc[t].results : ~CarriesScore(loc[t].results[i])

\* a search has returned entries of a store that calls before it had
\* changed, an entry created after start-up among them
C34_Witness ==
    \E t \in Threads :
       /\ KbReturned(t, "search_kb")
       /\ kb_entries # SeededEntries
       /\ \E i \in DOMAIN loc[t].results :
             loc[t].results[i].id > Len(SeedEntries)

\* the name words the comment at Check 3 calls common
CommonNameWords == {"pizza", "ice", "cream"}

\* all the normalised message shares with the name of the entry is common
\* words of the name, none of them its first word
OnlyCommonWordsIn(entry, text) ==
    LET occurring == {n \in DOMAIN NameWords(entry) : Contains(NameWords(entry)[n], text)}
    IN  /\ occurring # {}
        /\ 1 \notin occurring
        /\ \A n \in occurring : NameWords(entry)[n] \in CommonNameWords

\* C35: a message that shares with an item's name nothing but the common
\* words "pizza", "ice" or "cream", none of them the first word of the name,
\* does not put that item into the result of extract_menu_items.
C35_CommonWordsSkipped ==
    \A t \in Threads :
       pc[t] = "called_extract_menu_items" =>
          \A n \in DOMAIN loc[t].menu_data :
             OnlyCommonWordsIn(loc[t].menu_data[n],
                               CollapseSpaces(StrStrip(StrLower(loc[t].message))))
                => ~SeqContains(loc[t].found_items, loc[t].menu_data[n])

\* quantity b is quantity a or more (an integer beyond the floats is more
\* than any the model counts)
QuantityNotLess(a, b) ==
    b = Unconvertible \/ (a # Unconvertible /\ b >= a)

\* cart now is cart before with quantities raised in place and lines for
\* items of found appended
GrownFrom(before, now, found) ==
    /\ Len(now) >= Len(before)
    /\ \A i \in DOMAIN before :
          /\ now[i].menu_item_id = before[i].menu_item_id
          /\ now[i].item = before[i].item
          /\ now[i].price = before[i].price
          /\ QuantityNotLess(before[i].quantity, now[i].quantity)
    /\ \A i \in DOMAIN now :
          (i > Len(before) \/ now[i].quantity # before[i].quantity) =>
             \E n \in DOMAIN found : found[n].id = now[i].menu_item_id

\* C36: a process_message call changes the caller's cart in two cases only:
\* ORDER_INTENT with at least one extracted item (lines appended, quantities
\* raised, the lines there before keep their places) and CANCEL_ORDER on a
\* cart that is not empty (the cart is emptied).  For every other intent,
\* and for ORDER_INTENT without an item, the cart is as before; no call
\* changes pending_order or order_history.
C36_CartChangesOnlyByOrderAndCancel ==
    \A t \in Threads :
       pc[t] \in {"pm_return", "pm_raised"} =>
          LET before == loc[t].pre[Caller(t)]
              now == SessionOf(Caller(t))
          IN  /\ now.pending_order = before.pending_order
              /\ now.order_history = before.order_history
              /\ CASE loc[t].intent = "ORDER_INTENT" /\ loc[t].found_items # << >> ->
                         GrownFrom(before.cart, now.cart, loc[t].found_items)
                    [] loc[t].intent = "CANCEL_ORDER" /\ before.cart # << >> ->
                         now.cart = << >>
                    [] OTHER -> now.cart = before.cart

\* an order call that named both items of a cart of two lines has returned:
\* both quantities are higher, both lines where they were
C36_Witness ==
    \E t \in Threads :
       /\ Returned(t)
       /\ loc[t].intent = "ORDER_INTENT"
       /\ Len(CartBefore(t)) = 2
       /\ Len(CartNow(t)) = 2
       /\ \A i \in 1..2 :
             /\ CartNow(t)[i].menu_item_id = CartBefore(t)[i].menu_item_id
             /\ CartNow(t)[i].quantity > CartBefore(t)[i].quantity

\* the item of the call's menu snapshot with the id, as a set (empty: none)
FoundWithId(t, id) ==
    {n \in DOMAIN loc[t].found_items : loc[t].found_items[n].id = id}

\* C37: when an ORDER_INTENT call names an item whose menu_item_id is in the
\* cart already, the line of that id keeps its item name and its unit price
\* and gains the quantity of the call, whatever name and price the menu
\* snapshot of the call gives that id; no second line is added for it and
\* the other lines are as before.  The total of a later CONFIRM_ORDER is
\* the sum of stored price times quantity over the lines of the cart.
C37_LineKeepsNameAndPrice ==
    \A t \in Threads :
       /\ (Returned(t) /\ loc[t].intent = "ORDER_INTENT" /\ loc[t].found_items # << >>) =>
             /\ \A i \in DOMAIN CartBefore(t) :
                   IF FoundWithId(t, CartBefore(t)[i].menu_item_id) # {}
                   THEN /\ CartNow(t)[i].menu_item_id = CartBefore(t)[i].menu_item_id
                        /\ CartNow(t)[i].item = CartBefore(t)[i].item
                        /\ CartNow(t)[i].price = CartBefore(t)[i].price
                        /\ CartNow(t)[i].quantity =
                              CartBefore(t)[i].quantity + loc[t].quantity
                   ELSE CartNow(t)[i] = CartBefore(t)[i]
             /\ \A i \in DOMAIN CartNow(t) :
                   i > Len(CartBefore(t)) =>
                      \A j \in DOMAIN CartBefore(t) :
                         CartBefore(t)[j].menu_item_id # CartNow(t)[i].menu_item_id
       /\ (Returned(t) /\ loc[t].action = "confirm_order") =>
             /\ loc[t].data.total = SumOfLines(CartBefore(t), Len(CartBefore(t)))
             /\ CartNow(t) = CartBefore(t)

\* an order call has returned that named an item already in the cart while
\* the menu snapshot gave the item's id another name and another price: the
\* line has the old name and price and a higher quantity
C37_Witness ==
    \E t \in Threads :
       /\ Returned(t)
       /\ loc[t].intent = "ORDER_INTENT"
       /\ \E i \in DOMAIN CartBefore(t) :
             \E n \in FoundWithId(t, CartBefore(t)[i].menu_item_id) :
                /\ loc[t].found_items[n].price # CartBefore(t)[i].price
                /\ loc[t].found_items[n].item # CartBefore(t)[i].item
                /\ CartNow(t)[i].price = CartBefore(t)[i].price
                /\ CartNow(t)[i].item = CartBefore(t)[i].item
                /\ CartNow(t)[i].quantity > CartBefore(t)[i].quantity

\* chat() in thread t has persisted an order and replaced the session's cart
Placed(t) == pc[t] = "respond" /\ loc[t].response = "order_placed"

\* the lines of the list chat() took as cart = data["cart"], as it is now
ConfirmedList(t) == list_heap[loc[t].cart]

\* C38: a cart line that a concurrent ORDER_INTENT request of the same user
\* adds while a confirm request is between reading the cart and clearing
\* it is not lost: once the confirm request has cleared the cart, every line
\* of the list it confirmed is a row of the persisted order or a line of
\* the session's cart.
C38_NoLineLost ==
    \A t \in Threads :
       Placed(t) =>
          \A i \in DOMAIN ConfirmedList(t) :
             \/ \E r \in DOMAIN order_items :
                   /\ order_items[r].order_id = loc[t].db_order_id
                   /\ order_items[r].menu_item_id = ConfirmedList(t)[i].menu_item_id
             \/ \E j \in DOMAIN CartNow(t) :
                   CartNow(t)[j].menu_item_id = ConfirmedList(t)[i].menu_item_id

\* chat() in thread t has committed the order row for the cart list it took
\* from the confirm outcome
PersistedOrder(t) ==
    \/ pc[t] \in {"persist_items", "clear_cart"}
    \/ Placed(t)

\* C39: two confirm requests of one user that run side by side on one cart
\* persist at most one order for it: no two requests have both committed an
\* order row for the same cart list.
C39_OneOrderPerCart ==
    \A t, u \in Threads :
       (t # u /\ PersistedOrder(t) /\ PersistedOrder(u)) =>
          loc[t].cart # loc[u].cart

\* C40: a TRACK_ORDER message with an order identifier that matches no
\* order of a snapshot that is not empty gets the order-not-found outcome,
\* with action None and data None; neither the caller's orders by phone nor
\* the first record of the snapshot is shown instead.
C40_UnknownIdNotFound ==
    \A t \in Threads :
       ( /\ TrackReturned(t)
         /\ loc[t].orders_data # << >>
         /\ FirstDigits(loc[t].message) # ""
         /\ WithId(loc[t].orders_data, ParseInt(FirstDigits(loc[t].message), 0)) = {} )
       => /\ loc[t].response = "order_not_found"
          /\ loc[t].action = None
          /\ loc[t].data = NoData

=============================================================================
